---- MODULE Spec2Model ----
(***************************************************************************)
(* Stageflow: the dependency-driven DAG schedulers.                        *)
(*                                                                         *)
(*   UnifiedStageGraph (stageflow/stages/graph.py)   -- specification Spec *)
(*   StageGraph        (stageflow/pipeline/dag.py)   -- specification      *)
(*                                                      SpecDag            *)
(*                                                                         *)
(* Both run on one asyncio event loop: the coroutine `run` and one task    *)
(* per scheduled stage.  A step of the model is what one coroutine does    *)
(* between two suspension points.                                          *)
(***************************************************************************)
EXTENDS Integers, Sequences, FiniteSets, TLC

VARIABLES
    dependencies,   \* spec.dependencies, per stage name (deduplicated)
    conditional,    \* spec.conditional, per stage name
    pc,             \* where the coroutine `run` stands
    completed,      \* run: the dict `completed`, in insertion order
    in_degree,      \* run: the dict `in_degree`
    active_tasks,   \* run: the set `active_tasks` (a task is named by its stage)
    done,           \* run: the tasks of `done` the for loop has not reached yet
    raised,         \* the exception that left run, or NoExc
    task_state,     \* per stage task: none/created/running/done/failed/cancelled
    must_cancel,    \* per stage task: Task.cancel() was called on it
    task_result,    \* per stage task: the StageOutput it returned, or NoOutput
    task_exc,       \* per stage task: the exception it raised, or NoExc
    prior_outputs,  \* per stage: the prior_outputs of the StageInputs it was given
    runner_calls,   \* per stage: how many times spec.runner was invoked
    scheduled,      \* per stage: how many times schedule_stage(name) was called
    canceled,       \* PipelineContext.canceled (StageGraph only)
    skip_assessment,\* ctx.data["skip_assessment"] (StageGraph only)
    stage_events,   \* what record_stage_event handed to ctx.event_sink.try_emit, in order
    now,            \* time.monotonic()
    settings,       \* get_settings(): the circuit_breaker_* settings
    states,         \* CircuitBreaker._states, per key
    events,         \* what _try_emit_pipeline_event handed to the event sink, in order
    last_call,      \* the last call made on the breaker or the logger, and its result
    calls,          \* how many such calls were made
    inflight,       \* per call of the logger in progress: its key and how far it got
    invoked,        \* per key: how many times the provider's call() was awaited
    _cancel_events, \* orchestrator._cancel_events: per run id "absent", "clear" or "set"
    _active_tasks,  \* orchestrator._active_tasks: the run ids that have a task
    runs,           \* per run id: the task in PipelineOrchestrator.run and its PipelineRun row
    cancel_calls,   \* the calls of request_cancel made, with their results
    _children,      \* ChildRunTracker._children: per run id its set of child run ids
    _parents,       \* ChildRunTracker._parents: per run id its parent, or NoRun
    _canceled_runs, \* SubpipelineSpawner._canceled_runs
    spawner_lock,   \* SubpipelineSpawner._lock: the cascade that holds it, or NoCascade
    cascades,       \* per call of cancel_with_children: its recursion and its `canceled`
    sink,           \* what the spawner handed to get_event_sink().emit, in order
    links,          \* every (parent, child) pair register_child was ever given
    spawns          \* per child run id: the call of spawn that minted it

\* the variables of the two stage graphs
graphVars == <<dependencies, conditional, pc, completed, in_degree, active_tasks, done,
               raised, task_state, must_cancel, task_result, task_exc, prior_outputs,
               runner_calls, scheduled, canceled, skip_assessment, stage_events>>

\* the variables of the circuit breaker and the provider-call logger
breakerVars == <<now, settings, states, events, last_call, calls>>

\* what a step of a stage graph leaves alone
loggerVars == <<inflight, invoked>>
orchVars == <<_cancel_events, _active_tasks, runs, cancel_calls>>
spawnerVars == <<_children, _parents, _canceled_runs, spawner_lock, cascades, sink, links,
                 spawns>>
others == <<breakerVars, loggerVars, orchVars, spawnerVars>>
besidesBreaker == <<graphVars, loggerVars, orchVars, spawnerVars>>
besidesLogger == <<graphVars, orchVars, spawnerVars>>
besidesOrch == <<graphVars, breakerVars, loggerVars, spawnerVars>>
besidesSpawner == <<graphVars, breakerVars, loggerVars, orchVars>>

vars == <<graphVars, others>>

(***************************************************************************)
(* Bounds.                                                                 *)
(***************************************************************************)
\* Number of specs handed to the graph.
NumStages == 3

Stages == 1..NumStages

\* A dependency name that no spec declares.
Undeclared == NumStages + 1

None == "None"

(***************************************************************************)
(* StageOutput and its constructors (core/stages.py).  `data` is a dict:   *)
(* a function from the keys present to their values.                       *)
(***************************************************************************)
EmptyDict == [k \in {} |-> None]

StageOutput(status, data, error) == [status |-> status, data |-> data, error |-> error]

ok(data) == StageOutput("ok", data, None)

\* data={"reason": reason, **(data or {})}: a key of `data` wins.
skip(reason, data) == StageOutput("skip", data @@ ("reason" :> reason), None)

cancel(reason, data) == StageOutput("cancel", data @@ ("cancel_reason" :> reason), None)

fail(error, data) == StageOutput("fail", data, error)

retry(error, data) == StageOutput("retry", data, error)

NoOutput == StageOutput("none", EmptyDict, None)

\* dict.get(key, default)
Get(dict, key, default) == IF key \in DOMAIN dict THEN dict[key] ELSE default

\* Python truthiness of the values used here: None and "" are falsy.
Truthy(v) == v \notin {None, ""}

\* str | None -> `value or default`
Or(value, default) == IF Truthy(value) THEN value ELSE default


(***************************************************************************)
(* Exceptions.  One record shape for all of them.                          *)
(***************************************************************************)
Exc(type, stage, original, reason, results, pending) ==
    [type |-> type, stage |-> stage, original |-> original, reason |-> reason,
     results |-> results, pending |-> pending]

NoExc == Exc("none", Undeclared, None, None, <<>>, {})

\* UnifiedStageExecutionError(stage, original)
UnifiedStageExecutionError(stage, original) ==
    Exc("UnifiedStageExecutionError", stage, original, None, <<>>, {})

\* UnifiedPipelineCancelled(stage, reason, results)
UnifiedPipelineCancelled(stage, reason, results) ==
    Exc("UnifiedPipelineCancelled", stage, None, reason, results, {})

\* RuntimeError(f"Deadlocked stage graph; remaining stages: {pending}")
DeadlockError(pending) == Exc("RuntimeError", Undeclared, None, None, <<>>, pending)

\* asyncio.CancelledError leaving run
CancelledError == Exc("CancelledError", Undeclared, None, None, <<>>, {})

(***************************************************************************)
(* What a runner may hand back: a StageOutput, a dict, None, or something  *)
(* else (the runner is a black box).                                       *)
(***************************************************************************)
Reasons == {"", "noop"}

DictsReturned == {EmptyDict, "skip_reason" :> "noop", "skip_reason" :> ""}

StageOutputsReturned ==
    {ok(d) : d \in DictsReturned}
    \cup {cancel(r, EmptyDict) : r \in Reasons}
    \cup {skip("noop", EmptyDict), fail("boom", EmptyDict), retry("again", EmptyDict)}

RunnerResults ==
    {[kind |-> "StageOutput", val |-> o] : o \in StageOutputsReturned}
    \cup {[kind |-> "dict", val |-> d] : d \in DictsReturned}
    \cup {[kind |-> "None", val |-> None], [kind |-> "other", val |-> None]}

\* _normalize_output: NoOutput stands for the TypeError it raises.
_normalize_output(raw) ==
    CASE raw.kind = "None" -> ok(EmptyDict)
      [] raw.kind = "StageOutput" -> raw.val
      [] raw.kind = "dict" -> ok(raw.val)
      [] OTHER -> NoOutput

(***************************************************************************)
(* The dict `completed`: a sequence of (name, output) in insertion order.  *)
(***************************************************************************)
Keys(dict) == {dict[i].name : i \in DOMAIN dict}

Lookup(dict, name) == (CHOOSE i \in DOMAIN dict : dict[i].name = name)

Value(dict, name) == dict[Lookup(dict, name)].output

\* dict[name] = output
Store(dict, name, output) ==
    IF name \in Keys(dict)
    THEN [dict EXCEPT ![Lookup(dict, name)].output = output]
    ELSE Append(dict, [name |-> name, output |-> output])

\* in_degree at the start of run
InDegree(name) == Cardinality(dependencies[name])

\* _execute_node without the filter on spec.dependencies
PriorOutputsUnfiltered(name, dict) == dict

\* _execute_node: the outputs of `completed` whose name is a declared dependency
PriorOutputs(name, dict) == SelectSeq(dict, LAMBDA e : e.name \in dependencies[name])

\* StageInputs.get: the first value found for key, in insertion order
RECURSIVE InputsGet(_, _, _)
InputsGet(prior, key, default) ==
    IF prior = <<>> THEN default
    ELSE IF key \in DOMAIN Head(prior).output.data
         THEN Head(prior).output.data[key]
         ELSE InputsGet(Tail(prior), key, default)

\* _run_stage: ctx.get_output_data("skip_reason") searches the outputs emitted
\* on the fresh StageContext, which has none; then inputs.get("skip_reason")
SkipReason(prior) == InputsGet(prior, "skip_reason", None)

\* run: the reason as `data.get("cancel_reason") or "Pipeline cancelled"`
CancelReasonOrDefault(output) == Or(Get(output.data, "cancel_reason", None), "Pipeline cancelled")

\* run: the reason handed to UnifiedPipelineCancelled
CancelReason(output) == Get(output.data, "cancel_reason", "Pipeline cancelled")

\* run: the unlock loop without the test `in_degree[potential_child] == 0`
UnlockedByAnyDependency(stage_name, in_deg) ==
    {child \in Stages : stage_name \in dependencies[child]}

\* run: the unlock loop stopping at the first child it schedules
UnlockedFirstChild(stage_name, in_deg) ==
    LET ready == {child \in Stages :
                     stage_name \in dependencies[child] /\ in_deg[child] - 1 = 0}
    IN  {child \in ready : \A other \in ready : child <= other}

\* run: the children whose in_degree reaches zero when stage_name completes
Unlocked(stage_name, in_deg) ==
    {child \in Stages : stage_name \in dependencies[child] /\ in_deg[child] - 1 = 0}

\* run: the unlock loop decrementing every stage, dependent or not
DecrementedAll(stage_name, in_deg) == [child \in Stages |-> in_deg[child] - 1]

\* run: the unlock loop without `in_degree[potential_child] -= 1`
NotDecremented(stage_name, in_deg) == in_deg

\* run: in_degree after the "Unlock dependencies" loop
Decremented(stage_name, in_deg) ==
    [child \in Stages |->
        IF stage_name \in dependencies[child] THEN in_deg[child] - 1 ELSE in_deg[child]]

\* a task that has finished (Task.done())
Settled(t) == task_state[t] \in {"done", "failed", "cancelled"}

\* run: the loop condition as `len(completed) < len(self._specs) - 1`
LoopTopOneShort(dict, active) ==
    IF Len(dict) >= NumStages - 1 THEN "returned"
    ELSE IF active = {} THEN "raised"
    ELSE "waiting"

\* run: where the while loop goes from its top
LoopTop(dict, active) ==
    IF Len(dict) >= NumStages THEN "returned"
    ELSE IF active = {} THEN "raised"
    ELSE "waiting"

\* the deadlock RuntimeError naming every stage of the graph
LoopTopExcNamingAll(dict, active) ==
    IF LoopTop(dict, active) = "raised" THEN DeadlockError(Stages) ELSE NoExc

\* run: the deadlock RuntimeError, when the loop top raises it
LoopTopExc(dict, active) ==
    IF LoopTop(dict, active) = "raised" THEN DeadlockError(Stages \ Keys(dict)) ELSE NoExc

\* after `for t in active_tasks: t.cancel()`, without the gather
AfterCancelWithoutGather(active, gathering) == "raised"

\* after `for t in active_tasks: t.cancel()`: gather only if a task is left
AfterCancel(active, gathering) == IF active # {} THEN gathering ELSE "raised"


(***************************************************************************)
(* CircuitBreaker (observability/observability.py): per key                *)
(* (operation, provider, model_id) a state dict with the keys state,       *)
(* opened_at, failures and half_open_successes.  Every method runs its     *)
(* body under self._lock and never awaits inside it, so a call is one      *)
(* step.  Times are whole seconds of time.monotonic().                     *)
(***************************************************************************)
\* The clock stops here.
MaxTime == 3

\* Number of calls made on the breaker.
MaxCalls == 4

\* The settings are drawn from 1..MaxSetting.
MaxSetting == 2

\* opened_at = None
NoTime == 0 - 1

BreakerKeys == {<<"stt.transcribe", "P", None>>, <<"stt.transcribe", "P", "M">>}

BreakerState(state, opened_at, failures, half_open_successes) ==
    [state |-> state, opened_at |-> opened_at, failures |-> failures,
     half_open_successes |-> half_open_successes]

\* self._states.get(key) is None
Absent == BreakerState("absent", NoTime, <<>>, 0)

\* the state dict created on the first use of a key
NewState == BreakerState("closed", NoTime, <<>>, 0)

Settings(threshold, window, open_seconds, probe_count, observe_only) ==
    [circuit_breaker_failure_threshold |-> threshold,
     circuit_breaker_failure_window_seconds |-> window,
     circuit_breaker_open_seconds |-> open_seconds,
     circuit_breaker_half_open_probe_count |-> probe_count,
     circuit_breaker_observe_only |-> observe_only]

\* the settings of a breaker that nothing calls
IdleSettings == Settings(MaxSetting, MaxSetting, MaxSetting, MaxSetting, FALSE)

SettingsChoices ==
    {Settings(threshold, window, open_seconds, probe_count, observe_only) :
        threshold \in 1..MaxSetting, window \in 1..MaxSetting,
        open_seconds \in 1..MaxSetting, probe_count \in 1..MaxSetting,
        observe_only \in BOOLEAN}

\* the `reason` a caller passes to record_failure
FailureReasons == {"", "timeout"}

\* the data handed to _try_emit_pipeline_event for a circuit.* event; every
\* one of them is emitted inside `async with self._lock`
CircuitEvent(type, key, previous_state, new_state, reason) ==
    [type |-> type, key |-> key, previous_state |-> previous_state,
     new_state |-> new_state, reason |-> reason, lock_held |-> TRUE]

\* what a call did: the key's new state dict, the events emitted, the result
Outcome(state, emitted, result) == [state |-> state, emitted |-> emitted, result |-> result]

\* the open duration counted as elapsed only once it is exceeded
OpenDurationExceeded(st, t) ==
    st.opened_at # NoTime /\ t - st.opened_at > settings.circuit_breaker_open_seconds

\* `(now - float(opened_at)) >= settings.circuit_breaker_open_seconds`
OpenDurationElapsed(st, t) ==
    st.opened_at # NoTime /\ t - st.opened_at >= settings.circuit_breaker_open_seconds

\* open -> half_open with opened_at forgotten
HalfOpenedClearingOpenedAt(st, key) ==
    Outcome([st EXCEPT !.state = "half_open", !.opened_at = NoTime,
                       !.half_open_successes = 0],
            <<CircuitEvent("circuit.half_opened", key, st.state, "half_open",
                           "open_duration_elapsed")>>,
            FALSE)

\* open -> half_open, in note_attempt and in is_open
HalfOpened(st, key) ==
    Outcome([st EXCEPT !.state = "half_open", !.half_open_successes = 0],
            <<CircuitEvent("circuit.half_opened", key, st.state, "half_open",
                           "open_duration_elapsed")>>,
            FALSE)

\* an attempt that starts the key's state dict afresh unless it half-opens it
note_attempt_afresh(st, key, t) ==
    IF st # Absent /\ st.state = "open" /\ OpenDurationElapsed(st, t) THEN
        [HalfOpened(st, key) EXCEPT !.result = None]
    ELSE Outcome(NewState, <<>>, None)

note_attempt(st, key, t) ==
    IF st = Absent THEN Outcome(NewState, <<>>, None)
    ELSE IF st.state = "open" /\ OpenDurationElapsed(st, t) THEN
        [HalfOpened(st, key) EXCEPT !.result = None]
    ELSE Outcome(st, <<>>, None)

\* the count compared before this success is added
ProbesSucceededBefore(st) ==
    st.half_open_successes >= settings.circuit_breaker_half_open_probe_count

\* `state["half_open_successes"] = ... + 1` and the comparison with the probe count
ProbesSucceeded(st) ==
    st.half_open_successes + 1 >= settings.circuit_breaker_half_open_probe_count

record_success(st, key) ==
    IF st = Absent THEN Outcome(NewState, <<>>, None)
    ELSE IF st.state = "half_open" THEN
        IF ProbesSucceeded(st)
        THEN Outcome(BreakerState("closed", NoTime, <<>>, 0),
                     <<CircuitEvent("circuit.closed", key, st.state, "closed",
                                    "half_open_probe_succeeded")>>,
                     None)
        ELSE Outcome([st EXCEPT !.half_open_successes = @ + 1], <<>>, None)
    ELSE Outcome(st, <<>>, None)

\* `while failures and float(failures[0]) < cutoff: failures.popleft()`
RECURSIVE Pruned(_, _)
Pruned(failures, cutoff) ==
    IF failures # <<>> /\ Head(failures) < cutoff
    THEN Pruned(Tail(failures), cutoff)
    ELSE failures

\* the deque with the new failure, never pruned
FailuresNotPruned(failures, t) == Append(failures, t)

\* the deque after `cutoff = now - window`, the pruning and `failures.append(now)`
Failures(failures, t) ==
    Append(Pruned(failures, t - settings.circuit_breaker_failure_window_seconds), t)

record_failure(st, key, reason, t) ==
    LET state == IF st = Absent THEN NewState ELSE st
        failures == Failures(state.failures, t)
    IN  IF state.state = "half_open" THEN
            Outcome([state EXCEPT !.state = "open", !.opened_at = t,
                                  !.half_open_successes = 0],
                    <<CircuitEvent("circuit.opened", key, state.state, "open",
                                   Or(reason, "half_open_probe_failed"))>>,
                    None)
        ELSE IF /\ state.state = "closed"
                /\ Len(failures) >= settings.circuit_breaker_failure_threshold THEN
            Outcome([state EXCEPT !.state = "open", !.opened_at = t,
                                  !.failures = failures, !.half_open_successes = 0],
                    <<CircuitEvent("circuit.opened", key, state.state, "open",
                                   Or(reason, "failure_threshold_exceeded"))
                        @@ [failure_count |-> Len(failures),
                            window_seconds |->
                                settings.circuit_breaker_failure_window_seconds]>>,
                    None)
        ELSE Outcome([state EXCEPT !.failures = failures], <<>>, None)

\* is_open without the observe-only return
is_open_enforced(st, key, t) ==
    IF st = Absent THEN Outcome(st, <<>>, FALSE)
    ELSE IF st.state = "open" THEN
        IF OpenDurationElapsed(st, t) THEN HalfOpened(st, key)
        ELSE Outcome(st, <<>>, TRUE)
    ELSE Outcome(st, <<>>, FALSE)

is_open(st, key, t) ==
    IF settings.circuit_breaker_observe_only THEN Outcome(st, <<>>, FALSE)
    ELSE IF st = Absent THEN Outcome(st, <<>>, FALSE)
    ELSE IF st.state = "open" THEN
        IF OpenDurationElapsed(st, t) THEN HalfOpened(st, key)
        ELSE Outcome(st, <<>>, TRUE)
    ELSE Outcome(st, <<>>, FALSE)

\* a call on the breaker or on the logger, as last_call keeps it
Call(op, key, result) == [op |-> op, key |-> key, result |-> result]

NoCall == Call("none", <<None, None, None>>, None)

\* a bool a call returned, as last_call keeps it
Bool(value) == IF value THEN "True" ELSE "False"

\* Calls of the logger that may be in progress at once.
MaxInflight == 2

\* Number of calls made on the logger.
MaxProviderCalls == 3

CallIds == 1..MaxInflight

\* a call of ProviderCallLogger.call_stt_transcribe: "admitted" once is_open
\* returned False, "invoked" while call() is awaited
ProviderCall(key, phase) == [key |-> key, phase |-> phase]

NoProviderCall == ProviderCall(<<None, None, None>>, "idle")

\* a breaker that has not been used, under the given settings
BreakerCreated(given) ==
    /\ now = 0
    /\ settings = given
    /\ states = [key \in BreakerKeys |-> Absent]
    /\ events = <<>>
    /\ last_call = NoCall
    /\ calls = 0
    /\ inflight = [c \in CallIds |-> NoProviderCall]
    /\ invoked = [key \in BreakerKeys |-> 0]

(***************************************************************************)
(* PipelineOrchestrator (stages/orchestrator.py).  A run is one task; its  *)
(* PipelineRun row and the events of the run are written inside           *)
(* `async with get_session_context()` blocks, each kept here as one write  *)
(* made when the block is left without an exception.                       *)
(***************************************************************************)
\* Run ids handed to PipelineOrchestrator.run, each at most once.
MaxRuns == 2

RunIds == 1..MaxRuns

\* Number of request_cancel calls.
MaxCancelRequests == 2

\* event_logger.emit(type=..., data=...); data=None is kept as the empty dict
PipelineEvent(type, data) == [type |-> type, data |-> data]

\* a run id for which run has not been called; outcome is what the runner
\* raised, returned the dict it or run returned, result how run ended
NotStarted ==
    [pc |-> "idle", status |-> None, success |-> None, error |-> None, history |-> <<>>,
     emitted |-> <<>>, streaming_started |-> FALSE, must_cancel |-> FALSE,
     outcome |-> NoExc, returned |-> EmptyDict, result |-> None]

\* one session block: the row's fields as assigned, the events as emitted;
\* history keeps every value run.status was given
Recorded(run, status, success, error, emitted) ==
    [run EXCEPT !.status = status, !.success = success, !.error = error,
                !.history = Append(@, status), !.emitted = @ \o emitted]

_ensure_run_row(run) ==
    Recorded(run, "created", None, None, <<PipelineEvent("pipeline.created", EmptyDict)>>)

_transition(run, status) ==
    Recorded(run, status, run.success, run.error,
             IF status = "running"
             THEN <<PipelineEvent("pipeline.started", EmptyDict),
                    PipelineEvent("stage.pipeline.running", EmptyDict)>>
             ELSE <<PipelineEvent("stage.pipeline." \o status, EmptyDict)>>)

_mark_completed(run, data) ==
    LET unsuccessful == Get(data, "success", None) = "False"
    IN  Recorded(run, "completed",
                 IF unsuccessful THEN Bool(FALSE) ELSE Bool(TRUE),
                 IF unsuccessful THEN Or(Get(data, "error", None), "unsuccessful") ELSE None,
                 <<PipelineEvent("pipeline.completed", data),
                   PipelineEvent("stage.pipeline.completed", EmptyDict)>>)

_mark_failed(run, error) ==
    Recorded(run, "failed", Bool(FALSE), error,
             <<PipelineEvent("pipeline.failed", [error |-> error]),
               PipelineEvent("stage.pipeline.failed", [error |-> error])>>)

_mark_canceled(run) ==
    Recorded(run, "canceled", Bool(FALSE), "canceled",
             <<PipelineEvent("pipeline.canceled", EmptyDict),
               PipelineEvent("stage.pipeline.canceled", EmptyDict)>>)

\* the graceful mark that records the run as failed
_mark_cancelled_as_failed(run, exc) == _mark_failed(run, exc.type)

_mark_cancelled_gracefully(run, exc) ==
    Recorded(run, "cancelled", Bool(TRUE), None,
             <<PipelineEvent("pipeline.cancelled_gracefully",
                             [reason |-> exc.reason, cancelled_by_stage |-> exc.stage,
                              stages_completed |-> Keys(exc.results)]),
               PipelineEvent("stage.pipeline.cancelled",
                             [reason |-> exc.reason, cancelled_by_stage |-> exc.stage])>>)

\* what the runner handed to the orchestrator may return
RunnerDicts == {EmptyDict, "success" :> Bool(FALSE)}

\* what it may raise: the graph's graceful cancel, or any other exception
RunnerExceptions ==
    {UnifiedPipelineCancelled(1, reason, <<>>) : reason \in Reasons}
    \cup {UnifiedStageExecutionError(1, None)}

\* a call request_cancel(id) and what it returned; in_progress tells whether
\* run(id) had been called and had not yet returned or raised
CancelCall(id, result, in_progress) ==
    [id |-> id, result |-> result, in_progress |-> in_progress]

\* no run yet, both registries empty
OrchestratorIdle ==
    /\ _cancel_events = [r \in RunIds |-> "absent"]
    /\ _active_tasks = {}
    /\ runs = [r \in RunIds |-> NotStarted]
    /\ cancel_calls = <<>>

(***************************************************************************)
(* ChildRunTracker and SubpipelineSpawner.cancel_with_children             *)
(* (pipeline/subpipeline.py).  Run 1 is a pipeline run; every other run id *)
(* is the uuid4() of one spawn, so it is registered once, under one        *)
(* parent.  The tracker's lock is never held across an await; the          *)
(* spawner's lock is held while _emit_canceled is awaited.                 *)
(***************************************************************************)
\* Run ids of the tree: the pipeline run and the children spawned under it.
MaxTreeRuns == 3

TreeRuns == 1..MaxTreeRuns

\* parent_run_id = None
NoRun == 0

\* Calls of cancel_with_children.
MaxCascades == 2

CascadeIds == 1..MaxCascades

NoCascade == 0

\* one activation of cancel_recursive(current_id, depth); todo is what the
\* `for child_id in children` loop has not reached yet
Frame(current_id, depth, todo) == [current_id |-> current_id, depth |-> depth, todo |-> todo]

\* a call of cancel_with_children: its recursion stack, its `canceled` list,
\* and a record of what it saw: the children get_children returned per run,
\* the canceled set at its start, whether the tracker changed since
NoCascadeCall ==
    [pc |-> "idle", run_id |-> NoRun, stack |-> <<>>, canceled |-> <<>>,
     seen |-> [r \in TreeRuns |-> {}], before |-> {}, disturbed |-> FALSE]

\* PipelineCanceledEvent(...).to_dict() under the type pipeline.canceled
PipelineCanceledEvent(pipeline_run_id, parent_run_id, reason, cascade_depth) ==
    [type |-> "pipeline.canceled", pipeline_run_id |-> pipeline_run_id,
     parent_run_id |-> parent_run_id, reason |-> reason, cascade_depth |-> cascade_depth]

\* the depth handed to every child without the increment
SameDepth(depth) == depth

\* `cancel_recursive(child_id, depth + 1)`
ChildDepth(depth) == depth + 1

\* a run is marked although it is in the set already
NeverCanceledBefore(current_id) == TRUE

\* `if current_id not in self._canceled_runs`
NotCanceledBefore(current_id) == current_id \notin _canceled_runs

\* a call of spawn: where it stands, the parent_run_id of its ctx, and how
\* it ended: a SubpipelineResult's success, or the exception that left it
SpawnFrame(at, parent_run_id, success, exception) ==
    [pc |-> at, parent_run_id |-> parent_run_id, success |-> success,
     exception |-> exception]

\* uuid4() has not returned this id yet
NotSpawned == SpawnFrame("idle", NoRun, "None", "None")

\* the three events of spawn, each event.to_dict() under its type
ChildEvent(type, parent_run_id, child_run_id) ==
    [type |-> type, parent_run_id |-> parent_run_id, child_run_id |-> child_run_id]

\* a tracker and a spawner as constructed
SpawnerCreated ==
    /\ _children = [r \in TreeRuns |-> {}]
    /\ _parents = [r \in TreeRuns |-> NoRun]
    /\ _canceled_runs = {}
    /\ spawner_lock = NoCascade
    /\ cascades = [c \in CascadeIds |-> NoCascadeCall]
    /\ sink = <<>>
    /\ links = {}
    /\ spawns = [r \in TreeRuns |-> NotSpawned]

(***************************************************************************)
(* The inputs: the specs handed to the graph.  Neither graph constructor   *)
(* validates them, so a dependency may name an undeclared stage or close a *)
(* cycle.  Stages are numbered so that a valid edge points to a lower      *)
(* number; an invalid graph gives stage 1 a dependency: an undeclared      *)
(* name, itself, or a stage that depends on it.                            *)
(***************************************************************************)
\* a spec as a constructor reads it: its name and its dependencies
UnifiedStageSpec(name, deps) == [name |-> name, dependencies |-> deps]

\* `{spec.name: spec for spec in specs}`: of two specs with one name the
\* later one stays
SpecsByName(specs) ==
    [n \in {specs[i].name : i \in DOMAIN specs} |->
        specs[CHOOSE i \in DOMAIN specs :
                  specs[i].name = n /\ \A j \in DOMAIN specs : specs[j].name = n => j <= i]]

\* UnifiedStageGraph.__init__ (StageGraph.__init__ is the same): the dict it
\* keeps as self._specs, and the ValueError it raises when the dict is empty
GraphInit(specs) ==
    [_specs |-> SpecsByName(specs),
     raised |-> IF DOMAIN SpecsByName(specs) = {} THEN "ValueError" ELSE None]

ValidGraphs == {g \in [Stages -> SUBSET Stages] : \A n \in Stages : \A d \in g[n] : d < n}

BadDependencies(g) == {Undeclared, 1} \cup {n \in Stages : 1 \in g[n]}

Graphs ==
    ValidGraphs
    \cup UNION {{[g EXCEPT ![1] = {d}] : d \in BadDependencies(g)} : g \in ValidGraphs}

RECURSIVE Reach(_, _)
Reach(g, seen) ==
    LET more == seen \cup UNION {g[n] \cap Stages : n \in seen}
    IN  IF more = seen THEN seen ELSE Reach(g, more)

\* unique names, every dependency declared, no cycle
Validated(g) ==
    /\ \A n \in Stages : g[n] \subseteq Stages
    /\ \A n \in Stages : n \notin Reach(g, g[n] \cap Stages)

\* a graph that has been constructed and not run yet
GraphCreated ==
    /\ pc = "created"
    /\ completed = <<>>
    /\ in_degree = [n \in Stages |-> 0]
    /\ active_tasks = {}
    /\ done = {}
    /\ raised = NoExc
    /\ task_state = [n \in Stages |-> "none"]
    /\ must_cancel = [n \in Stages |-> FALSE]
    /\ task_result = [n \in Stages |-> NoOutput]
    /\ task_exc = [n \in Stages |-> NoExc]
    /\ prior_outputs = [n \in Stages |-> <<>>]
    /\ runner_calls = [n \in Stages |-> 0]
    /\ scheduled = [n \in Stages |-> 0]
    /\ canceled = FALSE
    /\ skip_assessment = FALSE
    /\ stage_events = <<>>

Init ==
    /\ dependencies \in Graphs
    /\ conditional \in {c \in [Stages -> BOOLEAN] : \A n \in Stages : c[n] => dependencies[n] # {}}
    /\ GraphCreated
    /\ BreakerCreated(IdleSettings)
    /\ OrchestratorIdle
    /\ SpawnerCreated

(***************************************************************************)
(* UnifiedStageGraph.run                                                   *)
(***************************************************************************)
\* schedule_stage(name) for every name of `names`
ScheduleStages(names) ==
    /\ task_state' = [n \in Stages |-> IF n \in names THEN "created" ELSE task_state[n]]
    /\ scheduled' = [n \in Stages |-> IF n \in names THEN scheduled[n] + 1 ELSE scheduled[n]]

\* `for t in active_tasks: t.cancel()`: a finished task ignores it
CancelTasks(active) ==
    must_cancel' = [n \in Stages |-> must_cancel[n] \/ (n \in active /\ ~Settled(n))]

\* run, from its first line to the first asyncio.wait
RunStart ==
    /\ pc = "created"
    /\ LET deg == [n \in Stages |-> InDegree(n)]
           ready_nodes == {n \in Stages : deg[n] = 0}
       IN  /\ in_degree' = deg
           /\ ScheduleStages(ready_nodes)
           /\ active_tasks' = ready_nodes
           /\ pc' = LoopTop(completed, ready_nodes)
           /\ raised' = LoopTopExc(completed, ready_nodes)
    /\ UNCHANGED <<dependencies, conditional, completed, done, must_cancel, task_result,
                   task_exc, prior_outputs, runner_calls, canceled, skip_assessment,
                   stage_events, others>>

\* asyncio.wait(active_tasks, FIRST_COMPLETED) returns: every task created
\* before run suspended has taken its first step by then
Wake ==
    /\ pc = "waiting"
    /\ \E t \in active_tasks : Settled(t)
    /\ \A t \in active_tasks : task_state[t] # "created"
    /\ done' = {t \in active_tasks : Settled(t)}
    /\ pc' = "for_done"
    /\ UNCHANGED <<dependencies, conditional, completed, in_degree, active_tasks, raised,
                   task_state, must_cancel, task_result, task_exc, prior_outputs,
                   runner_calls, scheduled, canceled, skip_assessment, stage_events, others>>

\* one pass of `for task in done`, for a task that raised
ForDoneException(task) ==
    LET active == active_tasks \ {task}
        exc == IF task_state[task] = "cancelled" THEN CancelledError ELSE task_exc[task]
    IN  /\ task_state[task] \in {"failed", "cancelled"}
        /\ active_tasks' = active
        /\ IF task_state[task] = "cancelled"
           THEN \* task.exception() itself raises CancelledError
                /\ pc' = "raised"
                /\ UNCHANGED must_cancel
           ELSE /\ CancelTasks(active)
                /\ pc' = AfterCancel(active, "gather_exc")
        /\ raised' = exc
        /\ done' = {}
        /\ UNCHANGED <<completed, in_degree, task_state, scheduled>>

\* one pass of `for task in done`, for a task that returned
ForDoneResult(task) ==
    LET active == active_tasks \ {task}
        stage_output == task_result[task]
        results == Store(completed, task, stage_output)
    IN  /\ task_state[task] = "done"
        /\ completed' = results
        /\ IF stage_output.status = "cancel"
           THEN /\ active_tasks' = active
                /\ CancelTasks(active)
                /\ pc' = AfterCancel(active, "gather_cancel")
                /\ raised' = UnifiedPipelineCancelled(task, CancelReason(stage_output), results)
                /\ done' = {}
                /\ UNCHANGED <<in_degree, task_state, scheduled>>
           ELSE LET children == Unlocked(task, in_degree)
                IN  /\ in_degree' = Decremented(task, in_degree)
                    /\ ScheduleStages(children)
                    /\ active_tasks' = active \cup children
                    /\ done' = done \ {task}
                    /\ pc' = IF done' = {} THEN LoopTop(results, active_tasks')
                             ELSE "for_done"
                    /\ raised' = IF done' = {} THEN LoopTopExc(results, active_tasks')
                                 ELSE NoExc
                    /\ UNCHANGED must_cancel

ForDone ==
    /\ pc = "for_done"
    /\ \E task \in done : ForDoneException(task) \/ ForDoneResult(task)
    /\ UNCHANGED <<dependencies, conditional, task_result, task_exc, prior_outputs,
                   runner_calls, canceled, skip_assessment, stage_events, others>>

\* asyncio.gather(*active_tasks, return_exceptions=True) returns, and the
\* exception prepared before it leaves run
GatherDone ==
    /\ pc \in {"gather_exc", "gather_cancel"}
    /\ \A t \in active_tasks : Settled(t)
    /\ pc' = "raised"
    /\ UNCHANGED <<dependencies, conditional, completed, in_degree, active_tasks, done,
                   raised, task_state, must_cancel, task_result, task_exc, prior_outputs,
                   runner_calls, scheduled, canceled, skip_assessment, stage_events, others>>

\* request_cancel: task.cancel() on the task that runs `run`; CancelledError
\* is thrown into run at asyncio.wait, which has no handler around it
AmbientCancel ==
    /\ pc = "waiting"
    /\ \A t \in active_tasks : task_state[t] # "created"
    /\ pc' = "raised"
    /\ raised' = CancelledError
    /\ UNCHANGED <<dependencies, conditional, completed, in_degree, active_tasks, done,
                   task_state, must_cancel, task_result, task_exc, prior_outputs,
                   runner_calls, scheduled, canceled, skip_assessment, stage_events, others>>


(***************************************************************************)
(* The stage tasks of UnifiedStageGraph: _execute_node and _run_stage.     *)
(***************************************************************************)
\* run is suspended, so the loop runs the stage tasks (the model follows the
\* tasks until run has ended)
TasksMayRun == pc \in {"waiting", "gather_exc", "gather_cancel", "gather_canceled"}

\* the conditional check of _run_stage: the reason to skip for, or a falsy value
ConditionalSkip(spec, prior) == IF conditional[spec] THEN SkipReason(prior) ELSE None

\* First step of the task of `name`: _execute_node builds the StageInputs and
\* _run_stage runs up to `await spec.runner(ctx)`.  A task cancelled before
\* its first step never runs its body.
TaskStart(name) ==
    /\ TasksMayRun
    /\ task_state[name] = "created"
    /\ IF must_cancel[name]
       THEN /\ task_state' = [task_state EXCEPT ![name] = "cancelled"]
            /\ UNCHANGED <<prior_outputs, task_result, runner_calls>>
       ELSE LET prior == PriorOutputs(name, completed)
                skip_reason == ConditionalSkip(name, prior)
            IN  /\ prior_outputs' = [prior_outputs EXCEPT ![name] = prior]
                /\ IF Truthy(skip_reason)
                   THEN /\ task_state' = [task_state EXCEPT ![name] = "done"]
                        /\ task_result' =
                               [task_result EXCEPT ![name] = skip(skip_reason, EmptyDict)]
                        /\ UNCHANGED runner_calls
                   ELSE /\ task_state' = [task_state EXCEPT ![name] = "running"]
                        /\ runner_calls' = [runner_calls EXCEPT ![name] = @ + 1]
                        /\ UNCHANGED task_result
    /\ UNCHANGED <<dependencies, conditional, pc, completed, in_degree, active_tasks, done,
                   raised, must_cancel, task_exc, scheduled, canceled, skip_assessment,
                   stage_events, others>>

\* _run_stage after the runner returned `raw`: the task's result, or NoOutput
\* when it raises instead
StageResultOf(raw) ==
    LET result == _normalize_output(raw)
    IN  IF result.status = "fail" THEN NoOutput ELSE result

\* _run_stage after the runner returned `raw`: the exception it raises, if any
StageErrorOf(name, raw) ==
    LET result == _normalize_output(raw)
    IN  IF result = NoOutput THEN UnifiedStageExecutionError(name, "TypeError")
        ELSE IF result.status = "fail"
             THEN UnifiedStageExecutionError(name, Or(result.error, "Stage failed"))
             ELSE NoExc

\* The runner returns `raw` (also after swallowing a cancellation).  The result
\* of a task that run has cancelled is awaited by gather(return_exceptions=True)
\* and dropped, so only its settling is kept.
RunnerReturn(name, raw) ==
    /\ TasksMayRun
    /\ task_state[name] = "running"
    /\ LET exc == StageErrorOf(name, raw)
       IN  /\ task_state' = [task_state EXCEPT ![name] = IF exc = NoExc THEN "done" ELSE "failed"]
           /\ IF must_cancel[name]
              THEN UNCHANGED <<task_exc, task_result>>
              ELSE /\ task_exc' = [task_exc EXCEPT ![name] = exc]
                   /\ task_result' = [task_result EXCEPT ![name] = StageResultOf(raw)]
    /\ UNCHANGED <<dependencies, conditional, pc, completed, in_degree, active_tasks, done,
                   raised, must_cancel, prior_outputs, runner_calls, scheduled, canceled,
                   skip_assessment, stage_events, others>>

\* the runner raises an Exception: wrapped in UnifiedStageExecutionError
RunnerRaise(name) ==
    /\ TasksMayRun
    /\ task_state[name] = "running"
    /\ task_state' = [task_state EXCEPT ![name] = "failed"]
    /\ IF must_cancel[name]
       THEN UNCHANGED task_exc
       ELSE task_exc' = [task_exc EXCEPT ![name] = UnifiedStageExecutionError(name, "raised")]
    /\ UNCHANGED <<dependencies, conditional, pc, completed, in_degree, active_tasks, done,
                   raised, must_cancel, task_result, prior_outputs, runner_calls, scheduled,
                   canceled, skip_assessment, stage_events, others>>

\* CancelledError is thrown into the runner and leaves the task:
\* `except Exception` does not catch it
RunnerCancelled(name) ==
    /\ TasksMayRun
    /\ task_state[name] = "running"
    /\ must_cancel[name]
    /\ task_state' = [task_state EXCEPT ![name] = "cancelled"]
    /\ UNCHANGED <<dependencies, conditional, pc, completed, in_degree, active_tasks, done,
                   raised, must_cancel, task_result, task_exc, prior_outputs, runner_calls,
                   scheduled, canceled, skip_assessment, stage_events, others>>

StageTask(name) ==
    \/ TaskStart(name)
    \/ \E raw \in RunnerResults : RunnerReturn(name, raw)
    \/ RunnerRaise(name)
    \/ RunnerCancelled(name)

Scheduler == RunStart \/ Wake \/ ForDone \/ GatherDone

Next == Scheduler \/ \E name \in Stages : StageTask(name)

Spec == Init /\ [][Next]_vars

\* the run under an orchestrator that may cancel it
NextAmbient == Next \/ AmbientCancel

SpecAmbient == Init /\ [][NextAmbient]_vars

\* the event loop is fair to run and to every stage task, and every runner
\* eventually returns or raises
SpecFair ==
    /\ Init
    /\ [][Next]_vars
    /\ WF_vars(Scheduler)
    /\ \A name \in Stages : WF_vars(StageTask(name))

(***************************************************************************)
(* StageGraph (pipeline/dag.py): the same loop over StageResult values,    *)
(* with the ctx.canceled check at the loop top and without CANCEL          *)
(* handling.  A StageResult is kept as the record of its status, data and  *)
(* error.                                                                  *)
(***************************************************************************)
StageResult(status, data, error) == [status |-> status, data |-> data, error |-> error]

\* StageExecutionError(stage, original)
StageExecutionError(stage, original) ==
    Exc("StageExecutionError", stage, original, None, <<>>, {})

\* what a legacy stage's execute may hand back
DagRunnerResults ==
    {[kind |-> "StageOutput", val |-> o] :
        o \in {ok(EmptyDict), fail("boom", EmptyDict), skip("noop", EmptyDict),
               cancel("noop", EmptyDict), retry("again", EmptyDict)}}
    \cup {[kind |-> "StageResult", val |-> StageResult("failed", EmptyDict, None)],
          [kind |-> "dict", val |-> EmptyDict],
          [kind |-> "None", val |-> None],
          [kind |-> "other", val |-> None]}

\* _normalize_result: NoOutput stands for the TypeError it raises
_normalize_result(raw) ==
    CASE raw.kind = "StageResult" -> raw.val
      [] raw.kind = "StageOutput" ->
             StageResult(IF raw.val.status = "fail" THEN "failed" ELSE "completed",
                         raw.val.data, raw.val.error)
      [] raw.kind \in {"dict", "None"} ->
             StageResult("completed", IF raw.kind = "None" THEN EmptyDict ELSE raw.val, None)
      [] OTHER -> NoOutput

\* run_with_interceptors(stage_name, stage_run, ctx, interceptors): the inner
\* function is invoked exactly once and its result is forwarded
run_with_interceptors(result) == result

\* ctx.record_stage_event(stage=..., status=...): the event stage.<stage>.<status>
StageEvent(stage, status) == [stage |-> stage, status |-> status]

\* the status _run_stage reports when execute has ended: "failed" for a result
\* whose status is failed and for the TypeError of _normalize_result
EndStatus(result) ==
    IF result = NoOutput \/ result.status = "failed" THEN "failed" ELSE "completed"

\* the result recorded for a stage that had not completed when the run was
\* canceled
PipelineCanceledResult == StageResult("failed", EmptyDict, "Pipeline canceled")

\* the data of a conditional stage skipped on ctx.data["skip_assessment"]
TriageSkipData == ("skipped" :> TRUE) @@ ("reason" :> "triage_decision")

\* the orders in which `for name in set(self._specs) - set(completed)` may
\* visit the names
Orders(names) ==
    {order \in [1..Cardinality(names) -> names] :
        \A i, j \in 1..Cardinality(names) : order[i] = order[j] => i = j}

RECURSIVE FillCanceled(_, _)
FillCanceled(dict, order) ==
    IF order = <<>> THEN dict
    ELSE FillCanceled(Store(dict, Head(order), PipelineCanceledResult), Tail(order))

\* StageGraph.run: where the while loop goes from its top
DagLoopTop(dict, active, flag) ==
    IF Len(dict) >= NumStages THEN "returned"
    ELSE IF active = {} THEN "raised"
    ELSE IF flag THEN "gather_canceled"
    ELSE "waiting"

\* the top of the while loop: the deadlock error, or the tasks cancelled on
\* ctx.canceled
DagAtLoopTop(dict, active) ==
    /\ pc' = DagLoopTop(dict, active, canceled)
    /\ raised' = IF pc' = "raised" THEN DeadlockError(Stages \ Keys(dict)) ELSE NoExc
    /\ IF pc' = "gather_canceled" THEN CancelTasks(active) ELSE UNCHANGED must_cancel

\* StageGraph.run, from its first line to the first await
DagRunStart ==
    /\ pc = "created"
    /\ LET deg == [n \in Stages |-> InDegree(n)]
           ready_nodes == {n \in Stages : deg[n] = 0}
       IN  /\ in_degree' = deg
           /\ ScheduleStages(ready_nodes)
           /\ active_tasks' = ready_nodes
           /\ DagAtLoopTop(completed, ready_nodes)
    /\ UNCHANGED <<dependencies, conditional, completed, done, task_result,
                   task_exc, prior_outputs, runner_calls, canceled, skip_assessment,
                   stage_events, others>>

\* one pass of `for task in done`, for a task that returned
DagForDoneResult(task) ==
    LET active == active_tasks \ {task}
        results == Store(completed, task, task_result[task])
        children == Unlocked(task, in_degree)
    IN  /\ task_state[task] = "done"
        /\ completed' = results
        /\ in_degree' = Decremented(task, in_degree)
        /\ ScheduleStages(children)
        /\ active_tasks' = active \cup children
        /\ done' = done \ {task}
        /\ IF done' = {}
           THEN DagAtLoopTop(results, active_tasks')
           ELSE pc' = "for_done" /\ raised' = NoExc /\ UNCHANGED must_cancel

DagForDone ==
    /\ pc = "for_done"
    /\ \E task \in done : ForDoneException(task) \/ DagForDoneResult(task)
    /\ UNCHANGED <<dependencies, conditional, task_result, task_exc, prior_outputs,
                   runner_calls, canceled, skip_assessment, stage_events, others>>

\* gather returns after ctx.canceled was seen: the remaining stages are marked
\* and the loop is left with `break`
DagCanceledGatherDone ==
    /\ pc = "gather_canceled"
    /\ \A t \in active_tasks : Settled(t)
    /\ \E order \in Orders(Stages \ Keys(completed)) :
           completed' = FillCanceled(completed, order)
    /\ pc' = "returned"
    /\ UNCHANGED <<dependencies, conditional, in_degree, active_tasks, done, raised,
                   task_state, must_cancel, task_result, task_exc, prior_outputs,
                   runner_calls, scheduled, canceled, skip_assessment, stage_events, others>>

\* somebody sets ctx.canceled while the run is under way
SetCanceled ==
    /\ pc \in {"created", "waiting"}
    /\ ~canceled
    /\ canceled' = TRUE
    /\ UNCHANGED <<dependencies, conditional, pc, completed, in_degree, active_tasks, done,
                   raised, task_state, must_cancel, task_result, task_exc, prior_outputs,
                   runner_calls, scheduled, skip_assessment, stage_events, others>>

\* a triage stage writes ctx.data["skip_assessment"] = True while it runs
SetSkipAssessment ==
    /\ TasksMayRun
    /\ ~skip_assessment
    /\ \E t \in Stages : task_state[t] = "running"
    /\ skip_assessment' = TRUE
    /\ UNCHANGED <<dependencies, conditional, pc, completed, in_degree, active_tasks, done,
                   raised, task_state, must_cancel, task_result, task_exc, prior_outputs,
                   runner_calls, scheduled, canceled, stage_events, others>>

\* First step of the legacy task of `name`: _run_stage up to the await of the
\* stage's execute
DagTaskStart(name) ==
    /\ TasksMayRun
    /\ task_state[name] = "created"
    /\ IF must_cancel[name]
       THEN /\ task_state' = [task_state EXCEPT ![name] = "cancelled"]
            /\ UNCHANGED <<task_result, runner_calls>>
       ELSE IF conditional[name] /\ skip_assessment
            THEN /\ task_state' = [task_state EXCEPT ![name] = "done"]
                 /\ task_result' =
                        [task_result EXCEPT
                            ![name] = StageResult("completed", TriageSkipData, None)]
                 /\ UNCHANGED runner_calls
            ELSE /\ task_state' = [task_state EXCEPT ![name] = "running"]
                 /\ runner_calls' = [runner_calls EXCEPT ![name] = @ + 1]
                 /\ UNCHANGED task_result
    /\ stage_events' =
           IF must_cancel[name] THEN stage_events
           ELSE Append(stage_events,
                       StageEvent(name, IF conditional[name] /\ skip_assessment
                                        THEN "skipped" ELSE "started"))
    /\ UNCHANGED <<dependencies, conditional, pc, completed, in_degree, active_tasks, done,
                   raised, must_cancel, task_exc, prior_outputs, scheduled, canceled,
                   skip_assessment, others>>

\* execute returns `raw`: _run_stage returns the normalized result, also one
\* whose status is "failed"; only the TypeError of _normalize_result is raised
DagRunnerReturn(name, raw) ==
    /\ TasksMayRun
    /\ task_state[name] = "running"
    /\ LET result == run_with_interceptors(_normalize_result(raw))
           exc == IF result = NoOutput THEN StageExecutionError(name, "TypeError") ELSE NoExc
       IN  /\ task_state' = [task_state EXCEPT ![name] = IF exc = NoExc THEN "done" ELSE "failed"]
           /\ IF must_cancel[name]
              THEN UNCHANGED <<task_exc, task_result>>
              ELSE /\ task_exc' = [task_exc EXCEPT ![name] = exc]
                   /\ task_result' = [task_result EXCEPT ![name] = result]
           /\ stage_events' = Append(stage_events, StageEvent(name, EndStatus(result)))
    /\ UNCHANGED <<dependencies, conditional, pc, completed, in_degree, active_tasks, done,
                   raised, must_cancel, prior_outputs, runner_calls, scheduled, canceled,
                   skip_assessment, others>>

\* execute raises an Exception: wrapped in StageExecutionError
DagRunnerRaise(name) ==
    /\ TasksMayRun
    /\ task_state[name] = "running"
    /\ task_state' = [task_state EXCEPT ![name] = "failed"]
    /\ IF must_cancel[name]
       THEN UNCHANGED task_exc
       ELSE task_exc' = [task_exc EXCEPT ![name] = StageExecutionError(name, "raised")]
    /\ stage_events' = Append(stage_events, StageEvent(name, "failed"))
    /\ UNCHANGED <<dependencies, conditional, pc, completed, in_degree, active_tasks, done,
                   raised, must_cancel, task_result, prior_outputs, runner_calls, scheduled,
                   canceled, skip_assessment, others>>

DagStageTask(name) ==
    \/ DagTaskStart(name)
    \/ \E raw \in DagRunnerResults : DagRunnerReturn(name, raw)
    \/ DagRunnerRaise(name)
    \/ RunnerCancelled(name)

DagScheduler == DagRunStart \/ Wake \/ DagForDone \/ GatherDone \/ DagCanceledGatherDone

NextDag ==
    \/ DagScheduler
    \/ \E name \in Stages : DagStageTask(name)
    \/ SetCanceled
    \/ SetSkipAssessment

SpecDag == Init /\ [][NextDag]_vars

\* StageGraph.run on an event loop that keeps running what is ready: the
\* scheduler's steps, the first step of every task created, and the delivery
\* of a task.cancel().  A runner need not ever return.
SpecDagFair ==
    /\ Init
    /\ [][NextDag]_vars
    /\ WF_vars(DagScheduler)
    /\ \A name \in Stages : WF_vars(DagTaskStart(name))
    /\ \A name \in Stages : WF_vars(RunnerCancelled(name))

(***************************************************************************)
(* Calls on the CircuitBreaker.  A caller may call any method for any key  *)
(* at any time; the clock advances between calls.                          *)
(***************************************************************************)
\* a graph that stays as constructed, and a breaker under some settings
InitBreaker ==
    /\ dependencies = [n \in Stages |-> {}]
    /\ conditional = [n \in Stages |-> FALSE]
    /\ GraphCreated
    /\ \E given \in SettingsChoices : BreakerCreated(given)
    /\ OrchestratorIdle
    /\ SpawnerCreated

\* time.monotonic() moves on
Tick ==
    /\ now < MaxTime
    /\ now' = now + 1
    /\ UNCHANGED <<settings, states, events, last_call, calls, besidesBreaker>>

\* the state kept per (operation, provider), whatever the model_id
BreakerCallPerProvider(op, key, outcome) ==
    /\ states' = [k \in BreakerKeys |->
                      IF k[1] = key[1] /\ k[2] = key[2] THEN outcome.state ELSE states[k]]
    /\ events' = events \o outcome.emitted
    /\ last_call' = Call(op, key, IF op = "is_open" THEN Bool(outcome.result) ELSE None)

\* the effect of one call of a breaker method on the breaker
BreakerCall(op, key, outcome) ==
    /\ states' = [states EXCEPT ![key] = outcome.state]
    /\ events' = events \o outcome.emitted
    /\ last_call' = Call(op, key, IF op = "is_open" THEN Bool(outcome.result) ELSE None)

Called(op, key, outcome) ==
    /\ calls < MaxCalls
    /\ calls' = calls + 1
    /\ BreakerCall(op, key, outcome)
    /\ UNCHANGED <<now, settings, besidesBreaker>>

NoteAttempt(key) == Called("note_attempt", key, note_attempt(states[key], key, now))

RecordSuccess(key) == Called("record_success", key, record_success(states[key], key))

RecordFailure(key) ==
    \E reason \in FailureReasons :
        Called("record_failure", key, record_failure(states[key], key, reason, now))

IsOpen(key) == Called("is_open", key, is_open(states[key], key, now))

NextBreaker ==
    \/ Tick
    \/ \E key \in BreakerKeys : NoteAttempt(key)
    \/ \E key \in BreakerKeys : RecordSuccess(key)
    \/ \E key \in BreakerKeys : RecordFailure(key)
    \/ \E key \in BreakerKeys : IsOpen(key)

SpecBreaker == InitBreaker /\ [][NextBreaker]_vars

(***************************************************************************)
(* ProviderCallLogger.call_stt_transcribe (observability/observability.py) *)
(* on the process-wide breaker.  A call suspends while its row is written  *)
(* and while the provider's call() runs, so calls interleave.  `events`    *)
(* keeps the circuit.* and *.breaker.denied events; the provider.call.*    *)
(* events of _emit_provider_call_event are left out.                       *)
(***************************************************************************)
\* the data of the stt.breaker.denied event; emitted after is_open returned
DeniedEvent(key) ==
    [type |-> "stt.breaker.denied", key |-> key, reason |-> "circuit_open",
     lock_held |-> FALSE]

\* the call's start: is_open, then the denial or the ProviderCall row
CallBegin(c, key) ==
    LET outcome == is_open(states[key], key, now)
    IN  /\ calls < MaxProviderCalls
        /\ inflight[c] = NoProviderCall
        /\ calls' = calls + 1
        /\ states' = [states EXCEPT ![key] = outcome.state]
        /\ IF outcome.result
           THEN /\ events' = events \o outcome.emitted \o <<DeniedEvent(key)>>
                /\ last_call' = Call("call_stt_transcribe", key, "CircuitBreakerOpenError")
                /\ UNCHANGED inflight
           ELSE /\ events' = events \o outcome.emitted
                /\ last_call' = Call("call_stt_transcribe", key, "pending")
                /\ inflight' = [inflight EXCEPT ![c] = ProviderCall(key, "admitted")]
        /\ UNCHANGED <<now, settings, invoked, besidesLogger>>

\* after the row is written: note_attempt, then `await wait_for(call(), ...)`
CallInvoke(c) ==
    LET key == inflight[c].key
        outcome == note_attempt(states[key], key, now)
    IN  /\ inflight[c].phase = "admitted"
        /\ states' = [states EXCEPT ![key] = outcome.state]
        /\ events' = events \o outcome.emitted
        /\ last_call' = Call("call_stt_transcribe", key, "pending")
        /\ inflight' = [inflight EXCEPT ![c].phase = "invoked"]
        /\ invoked' = [invoked EXCEPT ![key] = @ + 1]
        /\ UNCHANGED <<now, settings, calls, besidesLogger>>

\* how the awaited call() may end
CallResults == {"returned", "TimeoutError", "Exception", "CancelledError"}

\* what the call reports to the breaker when call() ended with `result`
Reported(st, key, result, t) ==
    CASE result = "returned" -> record_success(st, key)
      [] result = "TimeoutError" -> record_failure(st, key, "timeout", t)
      [] result = "Exception" -> record_failure(st, key, "error", t)
      [] result = "CancelledError" -> Outcome(st, <<>>, None)

\* call() ended: the report to the breaker, then the return or the re-raise
CallEnd(c, result) ==
    LET key == inflight[c].key
        outcome == Reported(states[key], key, result, now)
    IN  /\ inflight[c].phase = "invoked"
        /\ states' = [states EXCEPT ![key] = outcome.state]
        /\ events' = events \o outcome.emitted
        /\ last_call' = Call("call_stt_transcribe", key, result)
        /\ inflight' = [inflight EXCEPT ![c] = NoProviderCall]
        /\ UNCHANGED <<now, settings, calls, invoked, besidesLogger>>

NextLogger ==
    \/ Tick
    \/ \E c \in CallIds, key \in BreakerKeys : CallBegin(c, key)
    \/ \E c \in CallIds : CallInvoke(c)
    \/ \E c \in CallIds, result \in CallResults : CallEnd(c, result)

SpecLogger == InitBreaker /\ [][NextLogger]_vars

(***************************************************************************)
(* ProviderCallLogger.call_llm_generate on the process-wide breaker: the   *)
(* same steps as call_stt_transcribe, except that the success is reported  *)
(* with call_row.model_id, which the response's model fills in when the    *)
(* caller gave no model_id.                                                *)
(***************************************************************************)
GenerateKeys == {<<"llm.generate", "P", None>>, <<"llm.generate", "P", "M">>}

\* response.model: absent, or the model the provider answered with
ResponseModels == {None, "M"}

InitGenerate ==
    /\ dependencies = [n \in Stages |-> {}]
    /\ conditional = [n \in Stages |-> FALSE]
    /\ GraphCreated
    /\ now = 0
    /\ settings \in SettingsChoices
    /\ states = [key \in GenerateKeys |-> Absent]
    /\ events = <<>>
    /\ last_call = NoCall
    /\ calls = 0
    /\ inflight = [c \in CallIds |-> NoProviderCall]
    /\ invoked = [key \in GenerateKeys |-> 0]
    /\ OrchestratorIdle
    /\ SpawnerCreated

\* the call's start: is_open, then the denial or the ProviderCall row
GenerateBegin(c, key) ==
    LET outcome == is_open(states[key], key, now)
    IN  /\ calls < MaxProviderCalls
        /\ inflight[c] = NoProviderCall
        /\ calls' = calls + 1
        /\ states' = [states EXCEPT ![key] = outcome.state]
        /\ IF outcome.result
           THEN /\ events' = events \o outcome.emitted
                                 \o <<[DeniedEvent(key) EXCEPT !.type = "llm.breaker.denied"]>>
                /\ last_call' = Call("call_llm_generate", key, "CircuitBreakerOpenError")
                /\ UNCHANGED inflight
           ELSE /\ events' = events \o outcome.emitted
                /\ last_call' = Call("call_llm_generate", key, "pending")
                /\ inflight' = [inflight EXCEPT ![c] = ProviderCall(key, "admitted")]
        /\ UNCHANGED <<now, settings, invoked, besidesLogger>>

\* after the row is written: note_attempt, then `await wait_for(call(), ...)`
GenerateInvoke(c) ==
    LET key == inflight[c].key
        outcome == note_attempt(states[key], key, now)
    IN  /\ inflight[c].phase = "admitted"
        /\ states' = [states EXCEPT ![key] = outcome.state]
        /\ events' = events \o outcome.emitted
        /\ last_call' = Call("call_llm_generate", key, "pending")
        /\ inflight' = [inflight EXCEPT ![c].phase = "invoked"]
        /\ invoked' = [invoked EXCEPT ![key] = @ + 1]
        /\ UNCHANGED <<now, settings, calls, besidesLogger>>

\* call_row.model_id after update_provider_call(call_row, **updates)
RowModelId(model_id, response_model) ==
    IF Truthy(response_model) /\ ~Truthy(model_id) THEN response_model ELSE model_id

\* the key of the report to the breaker: record_failure is given model_id,
\* record_success call_row.model_id
ReportKey(key, result, response_model) ==
    IF result = "returned" THEN <<key[1], key[2], RowModelId(key[3], response_model)>> ELSE key

\* call() ended: the report to the breaker, then the return or the re-raise
GenerateEnd(c, result, response_model) ==
    LET key == inflight[c].key
        reported == ReportKey(key, result, response_model)
        outcome == Reported(states[reported], reported, result, now)
    IN  /\ inflight[c].phase = "invoked"
        /\ result # "returned" => response_model = None
        /\ states' = [states EXCEPT ![reported] = outcome.state]
        /\ events' = events \o outcome.emitted
        /\ last_call' = Call("call_llm_generate", key, result)
        /\ inflight' = [inflight EXCEPT ![c] = NoProviderCall]
        /\ UNCHANGED <<now, settings, calls, invoked, besidesLogger>>

NextGenerate ==
    \/ Tick
    \/ \E c \in CallIds, key \in GenerateKeys : GenerateBegin(c, key)
    \/ \E c \in CallIds : GenerateInvoke(c)
    \/ \E c \in CallIds, result \in CallResults, response_model \in ResponseModels :
           GenerateEnd(c, result, response_model)

SpecGenerate == InitGenerate /\ [][NextGenerate]_vars

(***************************************************************************)
(* PipelineOrchestrator.run, request_cancel and is_cancel_requested.  Each *)
(* action is what the run's task does between two suspension points; a     *)
(* task.cancel() is delivered as CancelledError at the await the task is   *)
(* suspended in.                                                           *)
(***************************************************************************)
\* an idle graph and breaker, and no run yet
InitOrchestrator ==
    /\ dependencies = [n \in Stages |-> {}]
    /\ conditional = [n \in Stages |-> FALSE]
    /\ GraphCreated
    /\ BreakerCreated(IdleSettings)
    /\ OrchestratorIdle
    /\ SpawnerCreated

\* the `finally` of run: both registries drop the id
Popped(r) ==
    /\ _cancel_events' = [_cancel_events EXCEPT ![r] = "absent"]
    /\ _active_tasks' = _active_tasks \ {r}

\* run is called: the id is registered, then run awaits _ensure_run_row
OrchestratorRun(r) ==
    /\ runs[r].pc = "idle"
    /\ _cancel_events' = [_cancel_events EXCEPT ![r] = "clear"]
    /\ _active_tasks' = _active_tasks \cup {r}
    /\ runs' = [runs EXCEPT ![r].pc = "_ensure_run_row"]
    /\ UNCHANGED <<cancel_calls, besidesOrch>>

\* the awaits before the `try`, and the runner's start
RunSetUp(r) ==
    /\ ~runs[r].must_cancel
    /\ \/ /\ runs[r].pc = "_ensure_run_row"
          /\ runs' = [runs EXCEPT ![r] = [_ensure_run_row(@) EXCEPT !.pc = "_transition"]]
       \/ /\ runs[r].pc = "_transition"
          /\ runs' = [runs EXCEPT ![r] = [_transition(@, "running") EXCEPT !.pc = "runner"]]
    /\ UNCHANGED <<_cancel_events, _active_tasks, cancel_calls, besidesOrch>>

\* the runner calls _wrapped_send_status("llm", "streaming", ...) or
\* _wrapped_send_token for the first time: the streaming transition (once the
\* cancel event is set both raise CancelledError instead)
WrappedSend(r) ==
    /\ runs[r].pc = "runner"
    /\ ~runs[r].must_cancel
    /\ _cancel_events[r] # "set"
    /\ ~runs[r].streaming_started
    /\ runs' = [runs EXCEPT
           ![r] = [_transition(@, "streaming") EXCEPT !.streaming_started = TRUE]]
    /\ UNCHANGED <<_cancel_events, _active_tasks, cancel_calls, besidesOrch>>

\* `result = await runner(...)` returns: the `finally`, then _mark_completed
RunnerReturns(r, data) ==
    /\ runs[r].pc = "runner"
    /\ ~runs[r].must_cancel
    /\ runs' = [runs EXCEPT ![r].pc = "_mark_completed", ![r].returned = data]
    /\ Popped(r)
    /\ UNCHANGED <<cancel_calls, besidesOrch>>

\* the runner raises: the handler that matches starts its mark
RunnerRaises(r, exc) ==
    /\ runs[r].pc = "runner"
    /\ ~runs[r].must_cancel
    /\ runs' = [runs EXCEPT ![r].outcome = exc,
                            ![r].pc = IF exc.type = "UnifiedPipelineCancelled"
                                      THEN "_mark_cancelled_gracefully"
                                      ELSE "_mark_failed"]
    /\ UNCHANGED <<_cancel_events, _active_tasks, cancel_calls, besidesOrch>>

\* the await the task is suspended in raises CancelledError: before the `try`
\* it leaves run at once, in the runner it starts _mark_canceled, in a mark
\* of a handler it leaves run through the `finally`
CancelledErrorThrown(r) ==
    /\ runs[r].must_cancel
    /\ IF runs[r].pc \in {"_ensure_run_row", "_transition"}
       THEN /\ runs' = [runs EXCEPT ![r].pc = "done", ![r].must_cancel = FALSE,
                                    ![r].result = "CancelledError"]
            /\ UNCHANGED <<_cancel_events, _active_tasks>>
       ELSE IF runs[r].pc = "runner"
       THEN /\ runs' = [runs EXCEPT ![r].pc = "_mark_canceled", ![r].must_cancel = FALSE,
                                    ![r].outcome = CancelledError]
            /\ UNCHANGED <<_cancel_events, _active_tasks>>
       ELSE /\ runs' = [runs EXCEPT ![r].pc = "done", ![r].must_cancel = FALSE,
                                    ![r].result = "CancelledError"]
            /\ Popped(r)
    /\ UNCHANGED <<cancel_calls, besidesOrch>>

\* the mark the run is in, as it leaves the row
Marked(run) ==
    CASE run.pc = "_mark_completed" -> _mark_completed(run, run.returned)
      [] run.pc = "_mark_failed" -> _mark_failed(run, run.outcome.type)
      [] run.pc = "_mark_canceled" -> _mark_canceled(run)
      [] run.pc = "_mark_cancelled_gracefully" -> _mark_cancelled_gracefully(run, run.outcome)

\* the mark ends and run returns or re-raises; after a handler's mark the
\* `finally` runs
MarkDone(r) ==
    /\ runs[r].pc \in {"_mark_completed", "_mark_failed", "_mark_canceled",
                       "_mark_cancelled_gracefully"}
    /\ ~runs[r].must_cancel
    /\ runs' = [runs EXCEPT
           ![r] = [Marked(@) EXCEPT
                      !.pc = "done",
                      !.result = IF runs[r].pc \in {"_mark_completed", "_mark_canceled"}
                                 THEN "returned"
                                 ELSE runs[r].outcome.type]]
    /\ IF runs[r].pc = "_mark_completed"
       THEN UNCHANGED <<_cancel_events, _active_tasks>>
       ELSE Popped(r)
    /\ UNCHANGED <<cancel_calls, besidesOrch>>

\* run(id) was called and has neither returned nor raised
InProgress(r) == runs[r].pc \notin {"idle", "done"}

is_cancel_requested(r) == _cancel_events[r] = "set"

\* request_cancel(id): False for an id that is not registered; else the
\* event is set and the registered task, unless it is done, is cancelled
RequestCancel(r) ==
    /\ Len(cancel_calls) < MaxCancelRequests
    /\ cancel_calls' = Append(cancel_calls,
                              CancelCall(r, _cancel_events[r] # "absent", InProgress(r)))
    /\ IF _cancel_events[r] = "absent"
       THEN UNCHANGED <<_cancel_events, runs>>
       ELSE /\ _cancel_events' = [_cancel_events EXCEPT ![r] = "set"]
            /\ runs' = [runs EXCEPT ![r].must_cancel =
                            @ \/ (r \in _active_tasks /\ InProgress(r))]
    /\ UNCHANGED <<_active_tasks, besidesOrch>>

NextOrchestrator ==
    \/ \E r \in RunIds : OrchestratorRun(r)
    \/ \E r \in RunIds : RunSetUp(r)
    \/ \E r \in RunIds : WrappedSend(r)
    \/ \E r \in RunIds, data \in RunnerDicts : RunnerReturns(r, data)
    \/ \E r \in RunIds, exc \in RunnerExceptions : RunnerRaises(r, exc)
    \/ \E r \in RunIds : CancelledErrorThrown(r)
    \/ \E r \in RunIds : MarkDone(r)
    \/ \E r \in RunIds : RequestCancel(r)

SpecOrchestrator == InitOrchestrator /\ [][NextOrchestrator]_vars

(***************************************************************************)
(* The callbacks run hands to its runner: _wrapped_send_status and         *)
(* _wrapped_send_token.  The runner calls them while run awaits it; a call *)
(* is kept as one step, and a status or a token sent again after the first *)
(* time changes nothing but the events, so each is sent once.              *)
(***************************************************************************)
\* the (stage, stage_status) pairs a runner reports
StageStatuses == {<<"llm", "streaming">>, <<"tts", "streaming">>}

StatusEvent(stage, stage_status) ==
    PipelineEvent("stage." \o stage \o "." \o stage_status, EmptyDict)

FirstTokenEvent == PipelineEvent("llm.first_token", EmptyDict)

Emitted(run, event) == \E i \in DOMAIN run.emitted : run.emitted[i] = event

\* the streaming transition both callbacks make when streaming_started is unset
StreamingStarted(run) ==
    [_transition(run, "streaming") EXCEPT !.streaming_started = TRUE]

\* the runner may call a callback: it runs, and the cancel event is not set
\* (a callback raises CancelledError into the runner once it is set)
CallbackRuns(r) ==
    /\ runs[r].pc = "runner"
    /\ ~runs[r].must_cancel
    /\ _cancel_events[r] # "set"

\* _wrapped_send_status(stage, stage_status, metadata)
WrappedSendStatus(r, stage, stage_status) ==
    /\ CallbackRuns(r)
    /\ ~Emitted(runs[r], StatusEvent(stage, stage_status))
    /\ LET run == IF stage = "llm" /\ stage_status = "streaming" /\ ~runs[r].streaming_started
                  THEN StreamingStarted(runs[r])
                  ELSE runs[r]
       IN  runs' = [runs EXCEPT
               ![r] = [run EXCEPT !.emitted = Append(@, StatusEvent(stage, stage_status))]]
    /\ UNCHANGED <<_cancel_events, _active_tasks, cancel_calls, besidesOrch>>

\* _wrapped_send_token(token), the first token of the run
WrappedSendToken(r) ==
    /\ CallbackRuns(r)
    /\ ~Emitted(runs[r], FirstTokenEvent)
    /\ LET run == IF ~runs[r].streaming_started THEN StreamingStarted(runs[r]) ELSE runs[r]
       IN  runs' = [runs EXCEPT ![r] = [run EXCEPT !.emitted = Append(@, FirstTokenEvent)]]
    /\ UNCHANGED <<_cancel_events, _active_tasks, cancel_calls, besidesOrch>>

NextStreaming ==
    \/ \E r \in RunIds : OrchestratorRun(r)
    \/ \E r \in RunIds : RunSetUp(r)
    \/ \E r \in RunIds, sent \in StageStatuses : WrappedSendStatus(r, sent[1], sent[2])
    \/ \E r \in RunIds : WrappedSendToken(r)
    \/ \E r \in RunIds, data \in RunnerDicts : RunnerReturns(r, data)
    \/ \E r \in RunIds, exc \in RunnerExceptions : RunnerRaises(r, exc)
    \/ \E r \in RunIds : CancelledErrorThrown(r)
    \/ \E r \in RunIds : MarkDone(r)
    \/ \E r \in RunIds : RequestCancel(r)

SpecStreaming == InitOrchestrator /\ [][NextStreaming]_vars

(***************************************************************************)
(* spawn's calls on the tracker, and cancel_with_children.                 *)
(***************************************************************************)
\* the run ids in use: the pipeline run and every child spawned so far
Spawned == {1} \cup {link[2] : link \in links}

\* the tracker changes: every call made so far has seen another tracker
Disturbed == [c \in CascadeIds |->
                 [cascades[c] EXCEPT !.disturbed = @ \/ cascades[c].pc # "idle"]]

\* spawn: register_child(parent_run_id, child_run_id) with a fresh child id
RegisterChild(parent_id, child_id) ==
    /\ parent_id \in Spawned
    /\ child_id \notin Spawned
    /\ _children' = [_children EXCEPT ![parent_id] = @ \cup {child_id}]
    /\ _parents' = [_parents EXCEPT ![child_id] = parent_id]
    /\ links' = links \cup {<<parent_id, child_id>>}
    /\ cascades' = Disturbed
    /\ UNCHANGED <<_canceled_runs, spawner_lock, sink, spawns, besidesSpawner>>

\* spawn's `finally`: unregister_child(parent_run_id, child_run_id)
UnregisterChild(parent_id, child_id) ==
    /\ <<parent_id, child_id>> \in links
    /\ _parents[child_id] = parent_id
    /\ _children' = [_children EXCEPT ![parent_id] = @ \ {child_id}]
    /\ _parents' = [_parents EXCEPT ![child_id] = NoRun]
    /\ cascades' = Disturbed
    /\ UNCHANGED <<_canceled_runs, spawner_lock, sink, links, spawns, besidesSpawner>>

\* the activation for current_id, after its `await get_children(current_id)`
Entered(call, current_id, depth) ==
    [call EXCEPT !.stack = Append(@, Frame(current_id, depth, _children[current_id])),
                 !.seen[current_id] = _children[current_id]]

\* cancel_with_children(run_id) is called: cancel_recursive(run_id, 0)
CancelWithChildren(c, run_id) ==
    /\ cascades[c].pc = "idle"
    /\ run_id \in Spawned
    /\ cascades' = [cascades EXCEPT
           ![c] = Entered([@ EXCEPT !.pc = "running", !.run_id = run_id,
                                    !.before = _canceled_runs], run_id, 0)]
    /\ UNCHANGED <<_children, _parents, _canceled_runs, spawner_lock, sink, links,
                   spawns, besidesSpawner>>

\* the loop over the children reaches the next child and recurses into it
CancelRecursive(c) ==
    LET call == cascades[c]
        top == call.stack[Len(call.stack)]
    IN  /\ call.pc = "running"
        /\ \E child_id \in top.todo :
               cascades' = [cascades EXCEPT
                   ![c] = Entered([call EXCEPT !.stack[Len(call.stack)].todo = @ \ {child_id}],
                                  child_id, ChildDepth(top.depth))]
        /\ UNCHANGED <<_children, _parents, _canceled_runs, spawner_lock, sink, links,
                       spawns, besidesSpawner>>

\* the activation on top of the stack returns
Returned(call) ==
    [call EXCEPT !.stack = SubSeq(@, 1, Len(@) - 1),
                 !.pc = IF Len(call.stack) = 1 THEN "done" ELSE "running"]

\* the loop is over: under the spawner's lock the run is marked, unless it
\* was marked before, and _emit_canceled is awaited with the lock held
MarkCanceled(c) ==
    LET call == cascades[c]
        top == call.stack[Len(call.stack)]
    IN  /\ call.pc = "running"
        /\ top.todo = {}
        /\ spawner_lock = NoCascade
        /\ IF NotCanceledBefore(top.current_id)
           THEN /\ _canceled_runs' = _canceled_runs \cup {top.current_id}
                /\ cascades' = [cascades EXCEPT ![c].pc = "_emit_canceled",
                                                ![c].canceled = Append(@, top.current_id)]
                /\ sink' = Append(sink, PipelineCanceledEvent(top.current_id,
                                            _parents[top.current_id], "user_requested",
                                            top.depth))
                /\ spawner_lock' = c
           ELSE /\ cascades' = [cascades EXCEPT ![c] = Returned(call)]
                /\ UNCHANGED <<_canceled_runs, sink, spawner_lock>>
        /\ UNCHANGED <<_children, _parents, links, spawns, besidesSpawner>>

\* sink.emit returns: the lock is released and the activation returns
EmitCanceledDone(c) ==
    /\ cascades[c].pc = "_emit_canceled"
    /\ spawner_lock' = NoCascade
    /\ cascades' = [cascades EXCEPT ![c] = Returned(cascades[c])]
    /\ UNCHANGED <<_children, _parents, _canceled_runs, sink, links, spawns, besidesSpawner>>

NextSpawner ==
    \/ \E parent_id, child_id \in TreeRuns : RegisterChild(parent_id, child_id)
    \/ \E parent_id, child_id \in TreeRuns : UnregisterChild(parent_id, child_id)
    \/ \E c \in CascadeIds, run_id \in TreeRuns : CancelWithChildren(c, run_id)
    \/ \E c \in CascadeIds : CancelRecursive(c)
    \/ \E c \in CascadeIds : MarkCanceled(c)
    \/ \E c \in CascadeIds : EmitCanceledDone(c)

SpecSpawner == InitOrchestrator /\ [][NextSpawner]_vars

(***************************************************************************)
(* SubpipelineSpawner.spawn, with emit_events true and a ctx that has a    *)
(* pipeline_run_id.  The tracker's lock is free whenever spawn asks for    *)
(* it, so register_child and unregister_child do not suspend; spawn        *)
(* suspends in sink.emit and in the runner, and a cancel of the task that  *)
(* runs spawn is delivered there.  A spawn under a child run is made by    *)
(* that child's runner.                                                    *)
(***************************************************************************)
\* where spawn is suspended
SpawnAwaits == {"_emit_spawned", "runner", "_emit_completed", "_emit_failed"}

\* the awaits of spawn inside its `try`
InsideTry == {"runner", "_emit_completed", "_emit_failed"}

\* spawn is called: the child id is minted, the pair is registered and
\* _emit_spawned hands pipeline.spawned_child to the sink
Spawn(parent_id, child_id) ==
    /\ parent_id \in Spawned
    /\ parent_id # 1 => spawns[parent_id].pc = "runner"
    /\ child_id \notin Spawned
    /\ _children' = [_children EXCEPT ![parent_id] = @ \cup {child_id}]
    /\ _parents' = [_parents EXCEPT ![child_id] = parent_id]
    /\ links' = links \cup {<<parent_id, child_id>>}
    /\ cascades' = Disturbed
    /\ sink' = Append(sink, ChildEvent("pipeline.spawned_child", parent_id, child_id))
    /\ spawns' = [spawns EXCEPT ![child_id] =
                      SpawnFrame("_emit_spawned", parent_id, "None", "None")]
    /\ UNCHANGED <<_canceled_runs, spawner_lock, besidesSpawner>>

\* _emit_spawned returns: `result = await runner(child_ctx)` begins
InvokeRunner(child_id) ==
    /\ spawns[child_id].pc = "_emit_spawned"
    /\ spawns' = [spawns EXCEPT ![child_id].pc = "runner"]
    /\ UNCHANGED <<_children, _parents, _canceled_runs, spawner_lock, cascades, sink, links,
                   besidesSpawner>>

\* the runner returns: _emit_completed hands pipeline.child_completed over
ChildRunnerReturns(child_id) ==
    /\ spawns[child_id].pc = "runner"
    /\ sink' = Append(sink, ChildEvent("pipeline.child_completed",
                                       spawns[child_id].parent_run_id, child_id))
    /\ spawns' = [spawns EXCEPT ![child_id].pc = "_emit_completed"]
    /\ UNCHANGED <<_children, _parents, _canceled_runs, spawner_lock, cascades, links,
                   besidesSpawner>>

\* the runner raises an Exception: `except Exception` hands
\* pipeline.child_failed over
ChildRunnerRaises(child_id) ==
    /\ spawns[child_id].pc = "runner"
    /\ sink' = Append(sink, ChildEvent("pipeline.child_failed",
                                       spawns[child_id].parent_run_id, child_id))
    /\ spawns' = [spawns EXCEPT ![child_id].pc = "_emit_failed"]
    /\ UNCHANGED <<_children, _parents, _canceled_runs, spawner_lock, cascades, links,
                   besidesSpawner>>

\* spawn's `finally`: unregister_child(parent_run_id, child_run_id)
Unregistered(child_id) ==
    /\ _children' = [_children EXCEPT ![spawns[child_id].parent_run_id] = @ \ {child_id}]
    /\ _parents' = [_parents EXCEPT ![child_id] = NoRun]
    /\ cascades' = Disturbed

\* the emit returns: spawn returns its SubpipelineResult through the `finally`
SpawnReturns(child_id) ==
    /\ spawns[child_id].pc \in {"_emit_completed", "_emit_failed"}
    /\ spawns' = [spawns EXCEPT
           ![child_id].pc = "returned",
           ![child_id].success = Bool(spawns[child_id].pc = "_emit_completed")]
    /\ Unregistered(child_id)
    /\ UNCHANGED <<_canceled_runs, spawner_lock, sink, links, besidesSpawner>>

\* CancelledError is thrown into spawn where it is suspended (from the
\* runner, it is the child ending by cancel).  `except Exception` does not
\* catch it; the `finally` runs only if the `try` was entered
SpawnCancelled(child_id) ==
    /\ spawns[child_id].pc \in SpawnAwaits
    /\ spawns' = [spawns EXCEPT ![child_id].pc = "raised",
                                ![child_id].exception = "CancelledError"]
    /\ IF spawns[child_id].pc \in InsideTry
       THEN Unregistered(child_id)
       ELSE UNCHANGED <<_children, _parents, cascades>>
    /\ UNCHANGED <<_canceled_runs, spawner_lock, sink, links, besidesSpawner>>

NextSpawn ==
    \/ \E parent_id, child_id \in TreeRuns : Spawn(parent_id, child_id)
    \/ \E child_id \in TreeRuns : InvokeRunner(child_id)
    \/ \E child_id \in TreeRuns : ChildRunnerReturns(child_id)
    \/ \E child_id \in TreeRuns : ChildRunnerRaises(child_id)
    \/ \E child_id \in TreeRuns : SpawnReturns(child_id)
    \/ \E child_id \in TreeRuns : SpawnCancelled(child_id)

SpecSpawn == InitOrchestrator /\ [][NextSpawn]_vars

\* spawn together with one call of cancel_with_children
NextCascade ==
    \/ NextSpawn
    \/ \E run_id \in TreeRuns : CancelWithChildren(1, run_id)
    \/ CancelRecursive(1)
    \/ MarkCanceled(1)
    \/ EmitCanceledDone(1)

SpecCascade == InitOrchestrator /\ [][NextCascade]_vars

(***************************************************************************)
(* ChildRunTracker called directly: register_child, unregister_child and   *)
(* cleanup_run for any run ids, in any order.  Each call runs under the    *)
(* tracker's lock without awaiting, so it is one step.  A run without a    *)
(* key in _children has the empty set here.                                *)
(***************************************************************************)
register_child(parent_id, child_id) ==
    /\ parent_id # child_id
    /\ _children' = [_children EXCEPT ![parent_id] = @ \cup {child_id}]
    /\ _parents' = [_parents EXCEPT ![child_id] = parent_id]
    /\ UNCHANGED <<_canceled_runs, spawner_lock, cascades, sink, links, spawns, besidesSpawner>>

unregister_child(parent_id, child_id) ==
    /\ parent_id # child_id
    /\ _children' = [_children EXCEPT ![parent_id] = @ \ {child_id}]
    /\ _parents' = [_parents EXCEPT ![child_id] = NoRun]
    /\ UNCHANGED <<_canceled_runs, spawner_lock, cascades, sink, links, spawns, besidesSpawner>>

cleanup_run(run_id) ==
    LET parent == _parents[run_id]
    IN  /\ _parents' = [_parents EXCEPT ![run_id] = NoRun]
        /\ _children' = [p \in TreeRuns |->
                            IF p = run_id THEN {}
                            ELSE IF p = parent THEN _children[p] \ {run_id}
                            ELSE _children[p]]
        /\ UNCHANGED <<_canceled_runs, spawner_lock, cascades, sink, links, spawns,
                       besidesSpawner>>

NextTracker ==
    \/ \E parent_id, child_id \in TreeRuns : register_child(parent_id, child_id)
    \/ \E parent_id, child_id \in TreeRuns : unregister_child(parent_id, child_id)
    \/ \E run_id \in TreeRuns : cleanup_run(run_id)

SpecTracker == InitOrchestrator /\ [][NextTracker]_vars

(***************************************************************************)
(* Properties of UnifiedStageGraph.                                        *)
(***************************************************************************)
\* C1: for every stage x whose runner is invoked, the prior_outputs of the
\* StageInputs handed to x is exactly {d: completed[d] for d in deps(x)}:
\* every declared dependency with its recorded output, and nothing else.
PriorOutputsAreDependencyOutputs ==
    \A x \in Stages :
        runner_calls[x] > 0 =>
            /\ {prior_outputs[x][i].name : i \in DOMAIN prior_outputs[x]} = dependencies[x]
            /\ Len(prior_outputs[x]) = Cardinality(dependencies[x])
            /\ \A i \in DOMAIN prior_outputs[x] :
                   /\ prior_outputs[x][i].name \in Keys(completed)
                   /\ prior_outputs[x][i].output = Value(completed, prior_outputs[x][i].name)

\* a stage ran on the output of its one dependency while a stage that is not
\* its dependency had completed before that dependency
PriorOutputsLeftOneOut ==
    \E x \in Stages, d \in Stages, o \in Stages :
        /\ runner_calls[x] > 0
        /\ d \in dependencies[x]
        /\ o \notin dependencies[x] \cup {x}
        /\ {d, o} \subseteq Keys(completed)
        /\ Lookup(completed, o) < Lookup(completed, d)
        /\ Len(prior_outputs[x]) = 1

\* C2: every spec is executed exactly once in an order respecting the
\* dependencies: no runner is invoked more than once (also after RETRY), no
\* runner is invoked before all its declared dependencies have completed, and
\* when run returns every stage that was not conditionally skipped had its
\* runner invoked exactly once.
ExecutedOnceInDependencyOrder ==
    /\ \A x \in Stages :
           /\ runner_calls[x] <= 1
           /\ scheduled[x] <= 1
           /\ runner_calls[x] > 0 => dependencies[x] \subseteq Keys(completed)
    /\ pc = "returned" =>
           \A x \in Stages :
               \/ runner_calls[x] = 1
               \/ /\ conditional[x]
                  /\ runner_calls[x] = 0
                  /\ Value(completed, x).status = "skip"

\* run returned after a stage answered RETRY and its dependent ran once
ReturnedAfterRetry ==
    /\ pc = "returned"
    /\ \E s \in Stages, x \in Stages :
           /\ Value(completed, s).status = "retry"
           /\ s \in dependencies[x]
           /\ runner_calls[s] = 1
           /\ runner_calls[x] = 1

\* C4: when run records the output StageOutput.cancel(reason) of a stage, it
\* raises UnifiedPipelineCancelled carrying that stage's name, the reason
\* string verbatim, and as partial results the outputs recorded so far: the
\* cancelling stage's own output and that of every stage completed before.
CancelRaisesPipelineCancelled ==
    \A s \in Keys(completed) :
        Value(completed, s).status = "cancel" =>
            /\ pc \in {"gather_cancel", "raised"}
            /\ \E reason \in Reasons :
                   /\ Value(completed, s) = cancel(reason, EmptyDict)
                   /\ raised = UnifiedPipelineCancelled(s, reason, completed)
            /\ s \in Keys(raised.results)

\* UnifiedPipelineCancelled left run with an empty reason and the outputs of
\* two stages
CancelledWithEmptyReason ==
    /\ pc = "raised"
    /\ raised.type = "UnifiedPipelineCancelled"
    /\ raised.reason = ""
    /\ Len(raised.results) >= 2

\* run has recorded a CANCEL output
CancelRecorded == \E s \in Keys(completed) : Value(completed, s).status = "cancel"

\* C5: after a stage returned CANCEL no stage that had not started is ever
\* started (no task is scheduled, no runner is invoked, no dependent of the
\* cancelling stage was ever scheduled), every in-flight task is cancelled,
\* and all of them have settled when UnifiedPipelineCancelled leaves run.
NothingStartsAfterCancel ==
    /\ [](CancelRecorded =>
            /\ \A t \in active_tasks : must_cancel[t] \/ Settled(t)
            /\ \A x \in Stages : raised.stage \in dependencies[x] => scheduled[x] = 0
            /\ pc = "raised" => \A t \in active_tasks : Settled(t))
    /\ [][CancelRecorded => (scheduled' = scheduled /\ runner_calls' = runner_calls)]_vars

\* UnifiedPipelineCancelled left run after an in-flight runner was cancelled,
\* and the cancelling stage has a dependent
CancelledInFlightTask ==
    /\ pc = "raised"
    /\ raised.type = "UnifiedPipelineCancelled"
    /\ \E t \in active_tasks : task_state[t] = "cancelled" /\ runner_calls[t] = 1
    /\ \E x \in Stages : raised.stage \in dependencies[x]

\* the output of a dependency asks the conditional stages after it to skip
SkipSignal(output) ==
    output.status = "skip" \/ Truthy(Get(output.data, "skip_reason", None))

\* C6: if stage x is conditional and any dependency d of x has output status
\* SKIP or a truthy data.skip_reason, then x's runner is never invoked and the
\* output of x has status SKIP, whichever dependency carries the signal and
\* in whatever order the dependencies completed.
ConditionalSkippedOnAnySignal ==
    \A x \in Stages :
        (/\ Validated(dependencies)
         /\ conditional[x]
         /\ \E d \in dependencies[x] \cap Keys(completed) : SkipSignal(Value(completed, d)))
        => /\ runner_calls[x] = 0
           /\ x \in Keys(completed) => Value(completed, x).status = "skip"

\* C7: when the orchestrator's cancellation reaches a run, the cancel is
\* propagated to the caller only after every in-flight stage task has been
\* cancelled and has settled, and every stage that had not completed holds a
\* synthetic failed output with error "Pipeline canceled" in the result map.
AmbientCancelSettlesAndFills ==
    (/\ Validated(dependencies)
     /\ pc = "raised"
     /\ raised.type = "CancelledError")
    => /\ \A t \in active_tasks : must_cancel[t] /\ Settled(t)
       /\ Keys(completed) = Stages
       /\ \A s \in Stages :
              runner_calls[s] = 0 \/ s \in active_tasks
                  => Value(completed, s) = fail("Pipeline canceled", EmptyDict)

\* C8: the map run returns has the key set names(P), conditionally skipped
\* stages included; partial maps leave run only inside an exception.
ReturnedMapHasEveryName ==
    pc = "returned" =>
        /\ Keys(completed) = Stages
        /\ Len(completed) = NumStages
        /\ raised = NoExc

\* run returned a map that holds the SKIP output of a conditional stage whose
\* runner was not invoked
ReturnedWithConditionalSkip ==
    /\ pc = "returned"
    /\ \E x \in Stages :
           /\ conditional[x]
           /\ runner_calls[x] = 0
           /\ Value(completed, x).status = "skip"

\* C9: maximal legal concurrency: whenever run is suspended in asyncio.wait,
\* every stage whose declared dependencies have all completed is in flight or
\* already completed.
ReadyStagesAreInFlight ==
    pc = "waiting" =>
        \A x \in Stages :
            dependencies[x] \subseteq Keys(completed) =>
                \/ x \in Keys(completed)
                \/ x \in active_tasks /\ task_state[x] # "none"

\* run waits while a root stage and the dependent of another, completed
\* stage both run
UnlockedRunsBesideUnrelated ==
    /\ pc = "waiting"
    /\ \E a \in Stages, b \in Stages :
           /\ dependencies[a] = {}
           /\ dependencies[b] # {}
           /\ a \notin dependencies[b]
           /\ task_state[a] = "running"
           /\ task_state[b] = "running"

\* C10: for a validated pipeline (every dependency declared, acyclic) whose
\* runners all end, the deadlock error never fires and run terminates: it
\* returns the full map, or raises because a stage failed or cancelled.
ValidatedRunTerminates ==
    Validated(dependencies) =>
        /\ [](pc = "raised" =>
                 raised.type \in {"UnifiedStageExecutionError", "UnifiedPipelineCancelled"})
        /\ [](pc = "returned" => Keys(completed) = Stages)
        /\ <>(pc \in {"returned", "raised"})

\* the run of a validated pipeline returned after a stage with two
\* dependencies was unlocked
ValidatedRunReturned ==
    /\ Validated(dependencies)
    /\ pc = "returned"
    /\ \E x \in Stages : Cardinality(dependencies[x]) = 2 /\ runner_calls[x] = 1

\* the stages `name` depends on, directly or through other stages
Ancestors(name) == Reach(dependencies, dependencies[name] \cap Stages)

\* the orders in which the stages of `prior` may have completed: a stage comes
\* after every stage it depends on, and stages that are independent of each
\* other come in either order
CompletionOrders(prior) ==
    {q \in Orders(Keys(prior)) :
        \A i, j \in DOMAIN q : i < j => q[j] \notin Ancestors(q[i])}

\* the outputs of `prior`, had their stages completed in the order q
InOrder(prior, q) == [i \in DOMAIN q |-> prior[Lookup(prior, q[i])]]

\* C33: what a started stage gets from StageInputs.get, for every key, and the
\* decision to skip it taken from skip_reason, are the same for every order in
\* which its independent dependencies may have completed.
InputsIndependentOfCompletionOrder ==
    \A x \in Stages :
        task_state[x] \notin {"none", "created"} =>
            \A q \in CompletionOrders(prior_outputs[x]) :
                LET other == InOrder(prior_outputs[x], q)
                IN  /\ \A key \in {"skip_reason", "reason", "cancel_reason"} :
                           InputsGet(other, key, None) = InputsGet(prior_outputs[x], key, None)
                    /\ Truthy(ConditionalSkip(x, other))
                           <=> Truthy(ConditionalSkip(x, prior_outputs[x]))

\* the places in the sink of the event stage.<stage>.<status>
EventsAt(stage, status) ==
    {i \in DOMAIN stage_events : stage_events[i] = StageEvent(stage, status)}

\* C29: for every stage whose runner was invoked a stage.<name>.started event
\* has reached the sink, every stage.<name>.completed or stage.<name>.failed
\* event comes after the started event of the same stage, and when the started
\* event of a stage is emitted the started event of each of its dependencies
\* was emitted before.
StageEventsFollowCausality ==
    /\ \A name \in Stages : runner_calls[name] > 0 => EventsAt(name, "started") # {}
    /\ \A name \in Stages :
           \A j \in EventsAt(name, "completed") \cup EventsAt(name, "failed") :
               \E i \in EventsAt(name, "started") : i < j
    /\ \A z \in Stages : \A k \in EventsAt(z, "started") :
           \A d \in dependencies[z] \cap Stages :
               \E i \in EventsAt(d, "started") : i < k

\* this step brings run to the top of its while loop: from its first line, or
\* from the last pass of `for task in done`, a pass for a task that returned
\* an output other than CANCEL
LoopTopReached ==
    \/ pc = "created" /\ pc' # "created"
    \/ /\ pc = "for_done"
       /\ done' = {}
       /\ \E task \in done :
              /\ task_state[task] = "done"
              /\ task_result[task].status # "cancel"
              /\ completed' = Store(completed, task, task_result[task])

\* C30: whenever run comes to the top of its loop with some stage not yet
\* completed and no task in flight (every ready stage has been scheduled by
\* then), it raises the RuntimeError that names exactly the stages not yet
\* completed; it waits only on a non-empty set of tasks and returns only the
\* full map.
DeadlockRaisesNamingPending ==
    [][LoopTopReached =>
        IF Keys(completed') = Stages
        THEN pc' = "returned" /\ raised' = NoExc
        ELSE IF active_tasks' = {}
        THEN /\ pc' = "raised"
             /\ raised' = DeadlockError(Stages \ Keys(completed'))
             /\ \A name \in Stages \ Keys(completed') : in_degree'[name] > 0
        ELSE pc' = "waiting" /\ raised' = NoExc]_vars

\* C30 witness: two stages completed, none is in flight, and run raised the
\* RuntimeError naming the one stage left, whose dependency never completes.
DeadlockedAfterTwoStages ==
    /\ pc = "raised"
    /\ raised = DeadlockError({1})
    /\ Keys(completed) = Stages \ {1}
    /\ active_tasks = {}

\* lists of up to two specs over two names
SpecLists ==
    LET specs == {UnifiedStageSpec(n, deps) : n \in 1..2, deps \in SUBSET {1, 2, Undeclared}}
    IN  {<<>>} \cup {<<s>> : s \in specs} \cup {<<s, t>> : s, t \in specs}

\* the list is empty, repeats a name, names an undeclared dependency or has a
\* dependency cycle
InvalidSpecs(specs) ==
    LET names == {specs[i].name : i \in DOMAIN specs}
        g == [n \in Stages |->
                 UNION {specs[i].dependencies : i \in {j \in DOMAIN specs : specs[j].name = n}}]
    IN  \/ specs = <<>>
        \/ \E i, j \in DOMAIN specs : i # j /\ specs[i].name = specs[j].name
        \/ \E i \in DOMAIN specs : ~(specs[i].dependencies \subseteq names)
        \/ \E n \in names : n \in Reach(g, g[n] \cap Stages)

\* C31: constructing a graph raises a validation error when the list of specs
\* is empty, repeats a name, names an undeclared dependency or has a dependency
\* cycle; so every graph that was constructed has declared, acyclic
\* dependencies, and run never raises the RuntimeError of a stage left pending.
BuildRejectsInvalidSpecs ==
    /\ \A specs \in SpecLists : InvalidSpecs(specs) => GraphInit(specs).raised = "ValueError"
    /\ Validated(dependencies)
    /\ ~(pc = "raised" /\ raised.type = "RuntimeError")

\* the declared dependencies of x that have no entry in `completed`
Unsatisfied(x) == dependencies[x] \ Keys(completed)

\* no stage has ended the loop with the status CANCEL
NoStageCancelled == \A i \in DOMAIN completed : completed[i].output.status # "cancel"

\* C40: once run has built in_degree, in_degree[x] is never negative and, as
\* long as no stage has ended the loop by returning CANCEL, equals the number
\* of distinct declared dependencies of x that have not completed; x has been
\* scheduled once if its in-degree is zero and not at all otherwise.
InDegreeCountsUnsatisfied ==
    pc # "created" =>
        \A x \in Stages :
            /\ in_degree[x] >= 0
            /\ NoStageCancelled => in_degree[x] = Cardinality(Unsatisfied(x))
            /\ scheduled[x] = IF in_degree[x] = 0 THEN 1 ELSE 0

\* run waits with a stage of two dependencies of which one has completed:
\* its in-degree is one and it has not been scheduled
OneDependencyLeft ==
    /\ pc = "waiting"
    /\ \E x \in Stages :
           /\ Cardinality(dependencies[x]) = 2
           /\ Cardinality(Unsatisfied(x)) = 1
           /\ in_degree[x] = 1
           /\ scheduled[x] = 0
           /\ \E d \in dependencies[x] : d \in Keys(completed) /\ scheduled[d] = 1

(***************************************************************************)
(* Properties of CircuitBreaker.                                           *)
(***************************************************************************)
\* this step is a call of the breaker method `op` for `key`
StepOf(op, key) == calls' = calls + 1 /\ last_call'.op = op /\ last_call'.key = key

\* this step emits exactly one event, of the given type, for `key`
Emits(type, key) ==
    /\ Len(events') = Len(events) + 1
    /\ SubSeq(events', 1, Len(events)) = events
    /\ events'[Len(events')].type = type
    /\ events'[Len(events')].key = key

\* the failures of `key` that lie inside the window that ends at time t
InWindow(key, t) ==
    {i \in 1..Len(states[key].failures) :
        states[key].failures[i] >= t - settings.circuit_breaker_failure_window_seconds}

\* C11: a record_failure call on a key that is closed (or not yet known) opens
\* the key and emits circuit.opened exactly when the failures inside the
\* sliding window, this one included, number at least failure_threshold; below
\* the threshold the key stays closed and nothing is emitted.
ClosedOpensExactlyAtThreshold ==
    [][\A key \in BreakerKeys :
        StepOf("record_failure", key) /\ states[key].state \in {"absent", "closed"} =>
            IF Cardinality(InWindow(key, now)) + 1 >= settings.circuit_breaker_failure_threshold
            THEN /\ states'[key].state = "open"
                 /\ states'[key].opened_at = now
                 /\ Emits("circuit.opened", key)
            ELSE /\ states'[key].state = "closed"
                 /\ events' = events]_vars

\* C11 witness: the second failure inside the window opened a key whose
\* threshold is two.
OpenedBySecondFailureInWindow ==
    \E key \in BreakerKeys :
        /\ settings.circuit_breaker_failure_threshold = 2
        /\ states[key].state = "open"
        /\ Len(states[key].failures) = 2
        /\ states[key].failures[1] < states[key].failures[2]
        /\ states[key].opened_at = states[key].failures[2]
        /\ last_call = Call("record_failure", key, None)
        /\ events # <<>> /\ events[Len(events)].type = "circuit.opened"

\* open_seconds have elapsed since the opened_at of `key`
Elapsed(key) == now - states[key].opened_at >= settings.circuit_breaker_open_seconds

\* C12 as stated: while a key is open every is_open query returns true until
\* open_seconds have elapsed since opened_at, the first is_open query at or
\* after that time moves the key to half_open and emits circuit.half_opened,
\* and the key leaves open in no other way.
OpenLeftOnlyByIsOpen ==
    [][\A key \in BreakerKeys : states[key].state = "open" =>
        /\ StepOf("is_open", key) /\ ~Elapsed(key) =>
               last_call'.result = Bool(TRUE) /\ states'[key] = states[key]
        /\ StepOf("is_open", key) /\ Elapsed(key) =>
               states'[key].state = "half_open" /\ Emits("circuit.half_opened", key)
        /\ states'[key].state # "open" => StepOf("is_open", key) /\ Elapsed(key)]_vars

\* C12 amended: while a key is open, an is_open query under observe_only
\* returns false and changes nothing; otherwise it returns true and changes
\* nothing until open_seconds have elapsed since opened_at, and at or after
\* that time it returns false, moves the key to half_open and emits
\* circuit.half_opened.  A note_attempt at or after that time does the same
\* move, and the key leaves open in no other way.
OpenLeftByIsOpenOrNoteAttempt ==
    [][\A key \in BreakerKeys : states[key].state = "open" =>
        /\ StepOf("is_open", key) /\ settings.circuit_breaker_observe_only =>
               last_call'.result = Bool(FALSE) /\ states'[key] = states[key] /\ events' = events
        /\ StepOf("is_open", key) /\ ~settings.circuit_breaker_observe_only =>
               IF Elapsed(key)
               THEN /\ last_call'.result = Bool(FALSE)
                    /\ states'[key].state = "half_open"
                    /\ Emits("circuit.half_opened", key)
               ELSE /\ last_call'.result = Bool(TRUE)
                    /\ states'[key] = states[key]
                    /\ events' = events
        /\ StepOf("note_attempt", key) /\ Elapsed(key) =>
               states'[key].state = "half_open" /\ Emits("circuit.half_opened", key)
        /\ states'[key].state # "open" =>
               /\ Elapsed(key)
               /\ states'[key] = [states[key] EXCEPT !.state = "half_open",
                                                     !.half_open_successes = 0]
               /\ Emits("circuit.half_opened", key)
               /\ \/ StepOf("note_attempt", key)
                  \/ StepOf("is_open", key) /\ ~settings.circuit_breaker_observe_only]_vars

\* C12 witness: a note_attempt has just moved an open key to half_open, at
\* least open_seconds after it was opened.
HalfOpenedByNoteAttempt ==
    \E key \in BreakerKeys :
        /\ states[key].state = "half_open"
        /\ last_call = Call("note_attempt", key, None)
        /\ events # <<>>
        /\ events[Len(events)].type = "circuit.half_opened"
        /\ events[Len(events)].key = key
        /\ now - states[key].opened_at >= settings.circuit_breaker_open_seconds

\* C13: in half_open a success adds one to half_open_successes, and the key
\* closes, emitting circuit.closed, exactly when that count reaches
\* half_open_probe_count; a failure in half_open sends the key back to open
\* with opened_at set to the time of the failure, emitting circuit.opened.
HalfOpenClosesAtProbeCount ==
    [][\A key \in BreakerKeys : states[key].state = "half_open" =>
        /\ StepOf("record_success", key) =>
               IF states[key].half_open_successes + 1
                      < settings.circuit_breaker_half_open_probe_count
               THEN /\ states'[key] = [states[key] EXCEPT !.half_open_successes = @ + 1]
                    /\ events' = events
               ELSE /\ states'[key].state = "closed"
                    /\ states'[key].half_open_successes = 0
                    /\ Emits("circuit.closed", key)
        /\ StepOf("record_failure", key) =>
               /\ states'[key].state = "open"
               /\ states'[key].opened_at = now
               /\ Emits("circuit.opened", key)]_vars

\* C13 witness: the second of two required probe successes closed the key.
ClosedBySecondProbe ==
    \E key \in BreakerKeys :
        /\ settings.circuit_breaker_half_open_probe_count = 2
        /\ states[key].state = "closed"
        /\ last_call = Call("record_success", key, None)
        /\ events # <<>>
        /\ events[Len(events)].type = "circuit.closed"
        /\ events[Len(events)].key = key

\* this step changes the state name of `key` and emits the one event that
\* names the change
Transition(key) ==
    /\ Emits(events'[Len(events')].type, key)
    /\ events'[Len(events')].previous_state = states[key].state
    /\ events'[Len(events')].new_state = states'[key].state
    /\ events'[Len(events')].type =
           CASE states'[key].state = "open" -> "circuit.opened"
             [] states'[key].state = "half_open" -> "circuit.half_opened"
             [] states'[key].state = "closed" -> "circuit.closed"

\* C24 as stated: under observe_only every is_open query returns false, and
\* the state and the events change as they would without observe_only: an
\* is_open query on an open key whose open_seconds have elapsed still moves
\* the key to half_open and emits circuit.half_opened.
ObserveOnlyKeepsEveryTransition ==
    [][settings.circuit_breaker_observe_only =>
        \A key \in BreakerKeys : StepOf("is_open", key) =>
            /\ last_call'.result = Bool(FALSE)
            /\ states[key].state = "open" /\ Elapsed(key) =>
                   states'[key].state = "half_open" /\ Emits("circuit.half_opened", key)]_vars

\* C24 amended: under observe_only every is_open query returns false and
\* changes neither the state nor the events (it does not make the open to
\* half_open move itself); note_attempt, record_success and record_failure
\* still make every transition and every change of a key's state name emits
\* the event that names it.
ObserveOnlyNeverBlocks ==
    [][settings.circuit_breaker_observe_only =>
        \A key \in BreakerKeys :
            /\ StepOf("is_open", key) =>
                   last_call'.result = Bool(FALSE) /\ states' = states /\ events' = events
            /\ states[key].state # "absent" /\ states'[key].state # states[key].state =>
                   Transition(key)
            /\ /\ StepOf("record_failure", key)
               /\ \/ states[key].state = "half_open"
                  \/ /\ states[key].state \in {"absent", "closed"}
                     /\ Cardinality(InWindow(key, now)) + 1
                            >= settings.circuit_breaker_failure_threshold
               => states'[key].state = "open" /\ states'[key].opened_at = now
            /\ StepOf("note_attempt", key) /\ states[key].state = "open" /\ Elapsed(key) =>
                   states'[key].state = "half_open"
            /\ /\ StepOf("record_success", key)
               /\ states[key].state = "half_open"
               /\ states[key].half_open_successes + 1
                      >= settings.circuit_breaker_half_open_probe_count
               => states'[key].state = "closed"]_vars

\* C24 witness: under observe_only a key was opened, with its event, and an
\* is_open query on it at or after open_seconds has returned false and left it
\* open.
ObservedOpenKeyNotBlocked ==
    \E key \in BreakerKeys :
        /\ settings.circuit_breaker_observe_only
        /\ states[key].state = "open"
        /\ now - states[key].opened_at >= settings.circuit_breaker_open_seconds
        /\ last_call = Call("is_open", key, Bool(FALSE))
        /\ events # <<>>
        /\ events[Len(events)].type = "circuit.opened"
        /\ events[Len(events)].key = key

\* a key's state dict as the methods read it: `self._states.get(key) is None`
\* is answered like a closed key without failures
Known(st) == IF st = Absent THEN NewState ELSE st

\* C25: a note_attempt on a key that is closed or not yet known emits nothing
\* and leaves the key's state dict as it was (a key not yet known gets the
\* dict of a closed key without failures); from the dict it leaves, is_open
\* gives the same answer, and record_failure and record_success make the same
\* transition with the same events, at every later time, as from the dict
\* before it.
NoteAttemptLeavesClosedKeyAlone ==
    [][\A key \in BreakerKeys :
        StepOf("note_attempt", key) /\ states[key].state \in {"absent", "closed"} =>
            LET before == states[key]
                after == states'[key]
            IN  /\ events' = events
                /\ after = Known(before)
                /\ \A k \in BreakerKeys \ {key} : states'[k] = states[k]
                /\ \A t \in now..MaxTime :
                       /\ is_open(after, key, t).result = is_open(before, key, t).result
                       /\ Known(is_open(after, key, t).state) =
                              Known(is_open(before, key, t).state)
                       /\ Known(record_success(after, key).state) =
                              Known(record_success(before, key).state)
                       /\ record_success(after, key).emitted =
                              record_success(before, key).emitted
                       /\ \A reason \in FailureReasons :
                              record_failure(after, key, reason, t) =
                                  record_failure(before, key, reason, t)]_vars

\* C25 witness: a note_attempt was made on a closed key that has a failure in
\* its window, and the key is closed with that failure still.
AttemptOnClosedKeyWithFailure ==
    \E key \in BreakerKeys :
        /\ last_call = Call("note_attempt", key, None)
        /\ states[key].state = "closed"
        /\ Len(states[key].failures) = 1
        /\ settings.circuit_breaker_failure_threshold = 2

\* C26: a call of any breaker method for one key (operation, provider,
\* model_id) leaves the state dict of every other key, its failure history
\* included, and the answer is_open would give for it, as they were, and
\* every event it emits names the key of the call; the key with model_id None
\* is one of these keys, apart from the key with a model_id.
CallTouchesOnlyItsKey ==
    [][calls' = calls + 1 =>
        LET key == last_call'.key
        IN  /\ key \in BreakerKeys
            /\ \A other \in BreakerKeys \ {key} :
                   /\ states'[other] = states[other]
                   /\ is_open(states'[other], other, now).result =
                          is_open(states[other], other, now).result
            /\ \A i \in Len(events) + 1..Len(events') : events'[i].key = key]_vars

\* C26 witness: the key without model_id is open and still denied, while the
\* key with a model_id, used after that, is closed and is_open just returned
\* false for it.
NullModelOpenOtherModelClosed ==
    \E opened, other \in BreakerKeys :
        /\ opened[3] = None /\ other[3] # None
        /\ opened[1] = other[1] /\ opened[2] = other[2]
        /\ ~settings.circuit_breaker_observe_only
        /\ states[opened].state = "open"
        /\ ~OpenDurationElapsed(states[opened], now)
        /\ states[other].state = "closed"
        /\ last_call = Call("is_open", other, Bool(FALSE))

\* the state dict of a known key is well formed: opened_at is None exactly
\* in the closed state, half_open_successes is zero outside half_open and
\* below the probe count inside it, and a closed key holds fewer failures
\* inside the window than the threshold
WellFormed(key) ==
    LET st == states[key]
    IN  /\ st.state \in {"closed", "open", "half_open"}
        /\ st.opened_at # NoTime <=> st.state # "closed"
        /\ st.state # "half_open" => st.half_open_successes = 0
        /\ st.state = "half_open" =>
               /\ st.half_open_successes >= 0
               /\ st.half_open_successes < settings.circuit_breaker_half_open_probe_count
        /\ st.state = "closed" =>
               Cardinality(InWindow(key, now)) < settings.circuit_breaker_failure_threshold

\* a step that leaves `key` half-open counts its successes: zero on entering
\* half_open, one more for a record_success on the key, unchanged otherwise
CountsProbeSuccesses(key) ==
    states'[key].state = "half_open" =>
        states'[key].half_open_successes =
            IF states[key].state # "half_open" THEN 0
            ELSE IF StepOf("record_success", key)
                 THEN states[key].half_open_successes + 1
                 ELSE states[key].half_open_successes

\* C39: in every reachable state the state dict of every known key has
\* opened_at set if and only if the key is not closed, has half_open_successes
\* equal to the number of successes recorded since the key last entered
\* half_open (zero outside half_open, below half_open_probe_count inside it),
\* and, when closed, holds fewer than failure_threshold failures inside the
\* window.
BreakerStateWellFormed ==
    /\ [](\A key \in BreakerKeys : states[key] # Absent => WellFormed(key))
    /\ [][\A key \in BreakerKeys : CountsProbeSuccesses(key)]_vars

\* a half-open key that has one probe success and waits for another
HalfOpenWithOneSuccess ==
    \E key \in BreakerKeys :
        /\ states[key].state = "half_open"
        /\ states[key].half_open_successes = 1
        /\ states[key].opened_at # NoTime
        /\ last_call = Call("record_success", key, None)

(***************************************************************************)
(* Properties of ProviderCallLogger.                                       *)
(***************************************************************************)
\* this step starts a call of the logger for `key`
CallBegins(key) == calls' = calls + 1 /\ last_call'.key = key

\* C14: with observe_only false, once failures through the logger have opened
\* the breaker for a key, a call that starts with the same key returns FAIL
\* without invoking the provider, and stt.breaker.denied is emitted after the
\* circuit.opened of that key.
CallOnOpenKeyReturnsFail ==
    [][\A key \in BreakerKeys :
        /\ ~settings.circuit_breaker_observe_only
        /\ states[key].state = "open"
        /\ CallBegins(key)
        => /\ last_call'.result = "FAIL"
           /\ inflight' = inflight
           /\ invoked' = invoked
           /\ Emits("stt.breaker.denied", key)
           /\ \E i \in 1..Len(events) :
                  events[i].type = "circuit.opened" /\ events[i].key = key]_vars

\* this step ends the admitted call in slot c, whose call() returned or raised
\* (a call that is cancelled is abandoned and reports nothing)
CallCompletes(c) ==
    /\ inflight[c].phase = "invoked"
    /\ inflight'[c] = NoProviderCall
    /\ last_call'.result \in {"returned", "TimeoutError", "Exception"}

\* C37: a provider call that was admitted and has completed reports one
\* outcome to the breaker under the key it was admitted with: the state of
\* that key becomes what record_success (when call() returned) or
\* record_failure (when it raised) makes of it, with the events of that one
\* report, and the state of no other key changes.
CallReportsOnItsOwnKey ==
    [][\A c \in CallIds : CallCompletes(c) =>
           LET key == inflight[c].key
               outcomes == IF last_call'.result = "returned"
                           THEN {record_success(states[key], key)}
                           ELSE {record_failure(states[key], key, reason, now) :
                                     reason \in {"timeout", "error"}}
           IN  /\ \E outcome \in outcomes :
                      /\ states'[key] = outcome.state
                      /\ events' = events \o outcome.emitted
               /\ \A other \in DOMAIN states \ {key} : states'[other] = states[other]]_vars

(***************************************************************************)
(* Properties of PipelineOrchestrator.                                     *)
(***************************************************************************)
\* the values of run.status that end a run: completed, failed, canceled (the
\* ambient cancel) and cancelled (the graceful cancel)
TerminalStatuses == {"completed", "failed", "canceled", "cancelled"}

\* created, running, optionally streaming, then one terminal status
Lifecycles ==
    {<<"created", "running", t>> : t \in TerminalStatuses}
    \cup {<<"created", "running", "streaming", t>> : t \in TerminalStatuses}

\* C15: the statuses recorded for a run follow created, running, optionally
\* streaming, then one terminal status, each at most once and none after the
\* terminal one, and a run that has ended has recorded exactly one terminal
\* status.
RunEndsInOneTerminalStatus ==
    \A r \in RunIds :
        /\ \E l \in Lifecycles :
               /\ Len(runs[r].history) <= Len(l)
               /\ runs[r].history = SubSeq(l, 1, Len(runs[r].history))
        /\ runs[r].pc = "done" => runs[r].history \in Lifecycles

\* the statuses recorded for run r
StatusesOf(r) == {runs[r].history[i] : i \in DOMAIN runs[r].history}

AmbientCancelEndsCanceled ==
    \A r \in RunIds :
        /\ runs[r].pc = "done"
        /\ \E i \in DOMAIN cancel_calls : cancel_calls[i] = CancelCall(r, TRUE, TRUE)
        => /\ runs[r].status = "canceled"
           /\ runs[r].error = "canceled"
           /\ StatusesOf(r) \cap {"failed", "completed"} = {}

\* C18: request_cancel returns true only for the id of a run in progress, and
\* is_cancel_requested is true only for the id of a run in progress for which
\* request_cancel returned true.
CancelSignalsFollowRuns ==
    /\ \A i \in DOMAIN cancel_calls : cancel_calls[i].result => cancel_calls[i].in_progress
    /\ \A r \in RunIds : is_cancel_requested(r) =>
           /\ InProgress(r)
           /\ \E i \in DOMAIN cancel_calls : cancel_calls[i] = CancelCall(r, TRUE, TRUE)

\* C27: once a cancellation of a run is being processed (asyncio.CancelledError
\* has left the awaited runner), the run ends recorded as canceled and returns
\* to its caller, whatever further request_cancel calls are made for it, at
\* any time.
RepeatedCancelChangesNothing ==
    \A r \in RunIds :
        runs[r].outcome = CancelledError /\ runs[r].pc = "done" =>
            /\ runs[r].status = "canceled"
            /\ runs[r].result = "returned"

\* the places of the events of type `type` among the events of a run
EventPlaces(run, type) == {i \in DOMAIN run.emitted : run.emitted[i].type = type}

\* the places of what enters streaming: the first token, or a
\* stage.<stage>.streaming status of any stage
StreamingSignals(run) ==
    EventPlaces(run, "llm.first_token")
    \cup UNION {EventPlaces(run, StatusEvent(sent[1], sent[2]).type) :
                    sent \in {s \in StageStatuses : s[2] = "streaming"}}

\* C32: a run has entered streaming if and only if its runner has sent a token
\* or a stage.<stage>.streaming status of any stage; the transition is made
\* once, at the first of them, and is emitted as an event of its own,
\* stage.pipeline.streaming, which precedes the event of whatever caused it.
StreamingEnteredOnFirstSignal ==
    \A r \in RunIds :
        LET run == runs[r]
            entered == {i \in DOMAIN run.history : run.history[i] = "streaming"}
            transitions == EventPlaces(run, "stage.pipeline.streaming")
        IN  /\ StreamingSignals(run) # {} <=> entered # {}
            /\ Cardinality(entered) <= 1
            /\ Cardinality(transitions) = Cardinality(entered)
            /\ \A t \in transitions : \A i \in StreamingSignals(run) : t < i

\* C34: once run has returned or raised, by whatever path, its id is in
\* neither registry: request_cancel for that id would return false, and
\* is_cancel_requested for it is false.
ExitedRunLeavesNoEntry ==
    \A r \in RunIds :
        runs[r].pc = "done" =>
            /\ _cancel_events[r] = "absent"
            /\ r \notin _active_tasks
            /\ ~is_cancel_requested(r)

(***************************************************************************)
(* Properties of SubpipelineSpawner.                                       *)
(***************************************************************************)
\* the runs the tracker holds under the runs of S, through at most n links
RECURSIVE Under(_, _)
Under(S, n) ==
    IF n = 0 THEN S ELSE Under(S \cup UNION {_children[r] : r \in S}, n - 1)

\* the descendants of run_id recorded in the tracker
Descendants(run_id) == Under(_children[run_id], MaxTreeRuns)

\* how many links lie between run_id and its descendant r
RECURSIVE LinkDepth(_, _)
LinkDepth(r, run_id) ==
    IF r = run_id THEN 0
    ELSE 1 + LinkDepth((CHOOSE link \in links : link[2] = r)[1], run_id)

\* the places of run r in the `canceled` list of a call
Places(call, r) == {k \in DOMAIN call.canceled : call.canceled[k] = r}

\* C19: a call of cancel_with_children marks a run only after every child the
\* tracker gave for it is marked, so the root comes last; when the call is over
\* the root is marked, and so is every descendant the tracker records if the
\* tracker did not change since the call; the pipeline.canceled event of each run
\* the call marked carries the number of links between the root and that run.
CanceledChildrenFirst ==
    \A c \in CascadeIds :
        LET call == cascades[c]
        IN  /\ \A k \in DOMAIN call.canceled :
                   /\ \A child \in call.seen[call.canceled[k]] :
                          /\ child \in _canceled_runs
                          /\ \A j \in Places(call, child) : j < k
                   /\ \E i \in DOMAIN sink :
                          /\ sink[i].pipeline_run_id = call.canceled[k]
                          /\ sink[i].cascade_depth = LinkDepth(call.canceled[k], call.run_id)
            /\ call.pc = "done" =>
                   /\ call.run_id \in _canceled_runs
                   /\ Places(call, call.run_id) \subseteq {Len(call.canceled)}
                   /\ ~call.disturbed => Descendants(call.run_id) \subseteq _canceled_runs

\* C19 witness: on the chain 1 -> 2 -> 3 a call for run 1 has marked 3, 2, 1 in
\* that order, with the depths 2, 1, 0.
ChainCanceledBottomUp ==
    \E c \in CascadeIds :
        /\ cascades[c].pc = "done"
        /\ cascades[c].run_id = 1
        /\ links = {<<1, 2>>, <<2, 3>>}
        /\ cascades[c].canceled = <<3, 2, 1>>
        /\ Len(sink) = 3
        /\ \A i \in 1..3 : sink[i].cascade_depth = 3 - i

\* C20: no run gets a second pipeline.canceled event, a call marks no run that
\* was in the canceled set when it started, and a call for a run that was
\* canceled with all its descendants before marks nothing, which leaves the
\* canceled set and the events as the first call left them.
CancelTwiceMarksNothingNew ==
    /\ \A i, j \in DOMAIN sink : sink[i].pipeline_run_id = sink[j].pipeline_run_id => i = j
    /\ \A c \in CascadeIds :
           LET call == cascades[c]
           IN  /\ \A k \in DOMAIN call.canceled : call.canceled[k] \notin call.before
               /\ /\ call.pc = "done"
                  /\ ~call.disturbed
                  /\ {call.run_id} \cup Descendants(call.run_id) \subseteq call.before
                  => call.canceled = <<>>

\* C20 witness: a second call for run 1, made after the first had marked run 1
\* and its child, is over and has marked nothing.
SecondCallMarkedNothing ==
    \E c, d \in CascadeIds :
        /\ cascades[c].pc = "done" /\ cascades[d].pc = "done"
        /\ cascades[c].run_id = 1 /\ cascades[d].run_id = 1
        /\ Len(cascades[c].canceled) >= 2
        /\ cascades[d].before = {cascades[c].canceled[k] : k \in DOMAIN cascades[c].canceled}
        /\ cascades[d].canceled = <<>>
        /\ Len(sink) = Len(cascades[c].canceled)

\* the tracker holds the link between a child and the parent of its spawn
Linked(child_id) ==
    \/ _parents[child_id] # NoRun
    \/ \E parent_id \in TreeRuns : child_id \in _children[parent_id]

\* C21: while the child runner of a spawn is awaited the tracker holds the pair
\* (parent_run_id, child_run_id), and once spawn has returned or raised the
\* tracker holds no link for that child.
SpawnLinkedOnlyWhileInProgress ==
    \A child_id \in TreeRuns :
        LET call == spawns[child_id]
        IN  /\ call.pc = "runner" =>
                   /\ child_id \in _children[call.parent_run_id]
                   /\ _parents[child_id] = call.parent_run_id
            /\ call.pc \in {"returned", "raised"} => ~Linked(child_id)

\* C22: when the child runner of a spawn ends, by returning, by raising or by
\* being cancelled, the sink has got pipeline.spawned_child for that child and
\* after it exactly one of pipeline.child_completed and pipeline.child_failed.
RunnerEndEmitsOneOutcome ==
    [][\A child_id \in TreeRuns :
           spawns[child_id].pc = "runner" /\ spawns'[child_id].pc # "runner" =>
               LET spawned == {i \in DOMAIN sink' : sink'[i] =
                                   ChildEvent("pipeline.spawned_child",
                                              spawns[child_id].parent_run_id, child_id)}
                   ended == {i \in DOMAIN sink' :
                                /\ sink'[i].type \in {"pipeline.child_completed",
                                                      "pipeline.child_failed"}
                                /\ sink'[i].child_run_id = child_id}
               IN  /\ Cardinality(spawned) = 1
                   /\ Cardinality(ended) = 1
                   /\ \A i \in spawned, j \in ended : i < j]_vars

\* C23: a call of cancel_with_children for run 1 that found the chain
\* 1 -> 2 -> 3 in the tracker, with no run canceled before, has marked 3, 2, 1
\* in that order when it is over, and the tracker's child sets of runs 1 and 2
\* are then empty.
ChainCancelEmptiesChildSets ==
    LET call == cascades[1]
    IN  /\ call.pc = "done"
        /\ call.run_id = 1
        /\ call.seen[1] = {2} /\ call.seen[2] = {3} /\ call.seen[3] = {}
        /\ call.before = {}
        /\ ~call.disturbed
        => /\ call.canceled = <<3, 2, 1>>
           /\ _children[1] = {}
           /\ _children[2] = {}

\* C28: no event reaches the event sink while the lock of the component that
\* emits it is held: no circuit.* event is handed over inside the breaker's
\* lock, and no call of cancel_with_children awaits _emit_canceled holding the
\* spawner's lock.
NoLockHeldAcrossEmit ==
    /\ \A i \in DOMAIN events : ~events[i].lock_held
    /\ \A c \in CascadeIds : cascades[c].pc = "_emit_canceled" => spawner_lock # c

\* every run the tracker records as a descendant of the root of call c is in
\* the canceled set
DescendantsCanceled(c) == Descendants(cascades[c].run_id) \subseteq _canceled_runs

\* C35: at the moment a call of cancel_with_children returns, every run that
\* the tracker then records as a descendant of its root is marked canceled,
\* whatever spawn calls registered children while the call ran.
ReturnedCascadeCoversDescendants ==
    [][\A c \in CascadeIds :
           cascades[c].pc # "done" /\ cascades'[c].pc = "done" => DescendantsCanceled(c)']_vars

\* C36: the tracker's two maps agree after any calls of register_child,
\* unregister_child and cleanup_run: c is in the child set of p exactly when
\* the parent recorded for c is p, and no run is in the child sets of two
\* parents.  (An empty child set is never stored: a set is created by an add
\* and deleted when a discard empties it.)
TrackerMapsAgree ==
    /\ \A p, c \in TreeRuns : c \in _children[p] <=> _parents[c] = p
    /\ \A c \in TreeRuns : Cardinality({p \in TreeRuns : c \in _children[p]}) <= 1

(***************************************************************************)
(* Properties of StageGraph.                                               *)
(***************************************************************************)
\* run has taken the finished task of stage s out of active_tasks, and the
\* stage's runner had returned a failed result or raised
FailureSeenByRun(s) ==
    /\ scheduled[s] > 0
    /\ s \notin active_tasks
    /\ \/ task_state[s] = "failed"
       \/ task_state[s] = "done" /\ task_result[s].status = "failed"

\* C3: if a stage's runner returns a FAIL output or raises, run raises
\* StageExecutionError naming that stage and wrapping the original error,
\* dependents of the failed stage are never started, and every other
\* in-flight task has been cancelled and has settled when the exception
\* leaves run.
FailedStageRaisesStageExecutionError ==
    \A s \in Stages :
        (Validated(dependencies) /\ FailureSeenByRun(s)) =>
            /\ pc \in {"gather_exc", "raised"}
            /\ raised.type = "StageExecutionError"
            /\ raised.stage = s
            /\ raised.original # None
            /\ \A x \in Stages : s \in dependencies[x] => scheduled[x] = 0
            /\ \A t \in active_tasks : must_cancel[t] \/ Settled(t)
            /\ pc = "raised" => \A t \in active_tasks : Settled(t)

\* C38: once ctx.canceled is set the run ends, whether or not any in-flight
\* stage ever finishes by itself: the scheduler cancels the in-flight tasks
\* and leaves the loop.
CanceledRunEnds == canceled ~> pc \in {"returned", "raised"}

====
